---- MODULE Spec2Model ----
(***************************************************************************)
(* ContentCraft video-generation pipeline: the generation request handler  *)
(* (videoController.generateVideo), the deletion handler                   *)
(* (videoController.deleteVideoById), the preview component of the client  *)
(* (VideoPreview), the orchestrator                                        *)
(* (videoService.createVideo), the Compliance Evaluator                    *)
(* (complianceChecker.ts), the HCP Segmenter (meditagEngine.ts), the       *)
(* Script Drafter (openai.ts) and the HeyGen Video Synthesizer             *)
(* (heygenApi.ts).                                                         *)
(*                                                                         *)
(* Text is a sequence of tokens.  Scripts and HCP text, which the code      *)
(* searches and trims character by character, are written one character    *)
(* per token; a text the code only compares, stores or searches for a      *)
(* phrase it never contains in part (messages, paths, the stem of a URL)   *)
(* is written with longer tokens.  A JavaScript value that may be a string *)
(* or undefined is a record [t, s]: t = "string" with the tokens in s, or  *)
(* t = "undefined".                                                        *)
(***************************************************************************)
EXTENDS Integers, Sequences, FiniteSets, TLC

\* ------------------------------------------------------------------ bounds
\* Longest script, counted in fragments of ScriptFragments.
MaxFrags == 2

\* ------------------------------------------------------------ text helpers
Str(chars) == [t |-> "string", s |-> chars]
Undefined == [t |-> "undefined", s |-> <<>>]

UpperCase == <<"A", "B", "C", "D", "E", "F", "G", "H", "I", "J", "K", "L", "M", "N", "O", "P", "Q", "R", "S", "T", "U", "V", "W", "X", "Y", "Z">>
LowerCase == <<"a", "b", "c", "d", "e", "f", "g", "h", "i", "j", "k", "l", "m", "n", "o", "p", "q", "r", "s", "t", "u", "v", "w", "x", "y", "z">>

\* String.prototype.toLowerCase on one character.
LowerChar(c) ==
  IF \E i \in 1..Len(UpperCase) : UpperCase[i] = c
    THEN LowerCase[CHOOSE i \in 1..Len(UpperCase) : UpperCase[i] = c]
    ELSE c

\* String.prototype.toLowerCase
toLowerCase(chars) == [i \in 1..Len(chars) |-> LowerChar(chars[i])]

\* String.prototype.includes
includes(chars, term) ==
  \E i \in 0..(Len(chars) - Len(term)) : SubSeq(chars, i + 1, i + Len(term)) = term

\* Array.prototype.some(term => lowerScript.includes(term))
someIncluded(terms, lowerScript) ==
  \E k \in 1..Len(terms) : includes(lowerScript, terms[k])

\* ---------------------------------------------------- Compliance Evaluator
evidenceTerms ==
  << <<"e", "v", "i", "d", "e", "n", "c", "e", "-", "b", "a", "s", "e", "d">>,
     <<"c", "l", "i", "n", "i", "c", "a", "l", " ", "t", "r", "i", "a", "l">>,
     <<"s", "t", "u", "d", "y", " ", "s", "h", "o", "w", "s">>,
     <<"r", "e", "s", "e", "a", "r", "c", "h", " ", "i", "n", "d", "i", "c", "a", "t", "e", "s">>,
     <<"d", "a", "t", "a", " ", "s", "u", "g", "g", "e", "s", "t">>,
     <<"d", "e", "m", "o", "n", "s", "t", "r", "a", "t", "e", "d", " ", "e", "f", "f", "i", "c", "a", "c", "y">>,
     <<"p", "r", "o", "v", "e", "n">>,
     <<"c", "l", "i", "n", "i", "c", "a", "l", "l", "y", " ", "v", "a", "l", "i", "d", "a", "t", "e", "d">>,
     <<"s", "t", "a", "t", "i", "s", "t", "i", "c", "a", "l", "l", "y", " ", "s", "i", "g", "n", "i", "f", "i", "c", "a", "n", "t">>,
     <<"p", "e", "e", "r", "-", "r", "e", "v", "i", "e", "w", "e", "d">>,
     <<"m", "e", "t", "a", "-", "a", "n", "a", "l", "y", "s", "i", "s">>,
     <<"r", "a", "n", "d", "o", "m", "i", "z", "e", "d", " ", "c", "o", "n", "t", "r", "o", "l", "l", "e", "d", " ", "t", "r", "i", "a", "l">>,
     <<"r", "c", "t">> >>

nonCompliantTerms ==
  << <<"b", "e", "s", "t", " ", "i", "n", " ", "c", "l", "a", "s", "s">>,
     <<"s", "u", "p", "e", "r", "i", "o", "r", " ", "t", "o">>,
     <<"b", "e", "t", "t", "e", "r", " ", "t", "h", "a", "n">>,
     <<"m", "o", "s", "t", " ", "e", "f", "f", "e", "c", "t", "i", "v", "e">>,
     <<"g", "u", "a", "r", "a", "n", "t", "e", "e", "d">>,
     <<"m", "i", "r", "a", "c", "l", "e">>,
     <<"c", "u", "r", "e">>,
     <<"n", "o", " ", "s", "i", "d", "e", " ", "e", "f", "f", "e", "c", "t", "s">>,
     <<"r", "i", "s", "k", " ", "f", "r", "e", "e">>,
     <<"i", "m", "m", "e", "d", "i", "a", "t", "e", " ", "r", "e", "s", "u", "l", "t", "s">>,
     <<"c", "o", "m", "p", "l", "e", "t", "e", " ", "r", "e", "l", "i", "e", "f">>,
     <<"r", "e", "v", "o", "l", "u", "t", "i", "o", "n", "a", "r", "y">>,
     <<"b", "r", "e", "a", "k", "t", "h", "r", "o", "u", "g", "h">> >>

\* containsEvidenceBasedLanguage(script), script a string
containsEvidenceBasedLanguage(chars) ==
  someIncluded(evidenceTerms, toLowerCase(chars))

\* hasNonCompliantLanguage in simpleComplianceCheck
hasNonCompliantLanguage(chars) ==
  someIncluded(nonCompliantTerms, toLowerCase(chars))

\* A heuristic that forgets the banned terms.
simpleComplianceCheckEvidenceOnly(chars) == containsEvidenceBasedLanguage(chars)

\* simpleComplianceCheck(script).passed, script a string
simpleComplianceCheck(chars) ==
  containsEvidenceBasedLanguage(chars) /\ ~hasNonCompliantLanguage(chars)

\* A derivation that asks for more than 60 points for Review.
derivedStatusAbove60(details) ==
  IF details.passed THEN "Passed"
  ELSE IF details.score > 60 THEN "Review"
  ELSE "Failed"

\* The status derived from the LLM verdict, before the rescue rule.
derivedStatus(details) ==
  IF details.passed THEN "Passed"
  ELSE IF details.score >= 60 THEN "Review"
  ELSE "Failed"

\* A rescue rule that lifts Failed to Passed.
rescuedStatusToPassed(status, evidenceBasedCheck) ==
  IF evidenceBasedCheck /\ status = "Failed" THEN "Passed" ELSE status

\* An evaluator without the rescue rule.
rescuedStatusNever(status, evidenceBasedCheck) == status

\* The rescue rule: evidence language lifts Failed to Review.
rescuedStatus(status, evidenceBasedCheck) ==
  IF evidenceBasedCheck /\ status = "Failed" THEN "Review" ELSE status

\* The value of a call that threw instead of returning a ComplianceResult.
ComplianceThrew ==
  [threw |-> TRUE, path |-> "none", passed |-> FALSE, status |-> "none",
   details |-> [passed |-> FALSE, score |-> 0, issues |-> <<>>, recommendations |-> <<>>]]

\* The result of the try block of evaluateCompliance (LLM verdict received).
primaryResult(chars, details) ==
  LET status == rescuedStatus(derivedStatus(details), containsEvidenceBasedLanguage(chars))
  IN [threw |-> FALSE, path |-> "primary", passed |-> (status = "Passed"),
      status |-> status, details |-> details]

\* A fallback that fails a script the heuristic does not pass.
fallbackResultFailing(chars) ==
  LET passed == simpleComplianceCheck(chars)
  IN [threw |-> FALSE, path |-> "fallback", passed |-> passed,
      status |-> IF passed THEN "Passed" ELSE "Failed",
      details |-> [passed |-> passed,
                   score |-> IF passed THEN 80 ELSE 50,
                   issues |-> IF passed THEN <<>>
                              ELSE <<"Compliance check error - limited validation performed">>,
                   recommendations |-> IF passed THEN <<>>
                              ELSE <<"Include explicit evidence-based language">>]]

\* The result of the catch block of evaluateCompliance (local fallback).
fallbackResult(chars) ==
  LET passed == simpleComplianceCheck(chars)
  IN [threw |-> FALSE, path |-> "fallback", passed |-> passed,
      status |-> IF passed THEN "Passed" ELSE "Review",
      details |-> [passed |-> passed,
                   score |-> IF passed THEN 80 ELSE 50,
                   issues |-> IF passed THEN <<>>
                              ELSE <<"Compliance check error - limited validation performed">>,
                   recommendations |-> IF passed THEN <<>>
                              ELSE <<"Include explicit evidence-based language">>]]

\* evaluateCompliance(script).  llm is the outcome of checkCompliance:
\* [ok |-> TRUE, details |-> verdict] or ok = FALSE when the call threw.
\* A script that is not a string makes script.toLowerCase() throw a
\* TypeError: in the try block after a verdict (caught), and again in
\* simpleComplianceCheck inside the catch block (not caught).
evaluateCompliance(script, llm) ==
  IF script.t # "string" THEN ComplianceThrew
  ELSE IF llm.ok THEN primaryResult(script.s, llm.details)
  ELSE fallbackResult(script.s)

\* --------------------------------------------- inputs of the evaluator
ScriptFragments ==
  { <<"P", "e", "e", "r", "-">>,
    <<"R", "e", "v", "i", "e", "w", "e", "d", " ">>,
    <<"R", "C", "T">>,
    <<"s", "e">>,
    <<"c", "u", "r", "e", " ">>,
    <<"u", "n">>,
    <<"p", "r", "o", "v", "e", "n", " ">>,
    <<"G", "u", "a", "r", "a", "n", "t", "e", "e", "d", " ">>,
    <<"s", "a", "f", "e", " ">> }

RECURSIVE Flatten(_)
Flatten(frags) ==
  IF frags = <<>> THEN <<>> ELSE Head(frags) \o Flatten(Tail(frags))

\* Every script of at most MaxFrags fragments.
ScriptTexts ==
  { Flatten(f) : f \in UNION { [1..n -> ScriptFragments] : n \in 0..MaxFrags } }

VerdictScores == {0, 59, 60, 100}

\* What checkCompliance can return: the LLM's verdict.
Verdicts ==
  [passed : BOOLEAN, score : VerdictScores,
   issues : {<<>>, <<"llm issue">>}, recommendations : {<<>>, <<"llm recommendation">>}]

NoVerdict == [passed |-> FALSE, score |-> 0, issues |-> <<>>, recommendations |-> <<>>]

LlmOutcomes ==
  { [ok |-> TRUE, details |-> v] : v \in Verdicts } \cup { [ok |-> FALSE, details |-> NoVerdict] }

\* ------------------------------------------------------- JavaScript values
\* A check for undefined only, which lets the empty string through.
TruthyTextDefined(v) == v.t = "string"

\* A value that is a string or undefined is truthy iff it is a non-empty string.
TruthyText(v) == v.t = "string" /\ Len(v.s) > 0

IsWhitespace(c) == c \in {" ", "\t", "\n", "\r"}

\* String.prototype.trim
RECURSIVE trimStart(_)
trimStart(chars) ==
  IF chars # <<>> /\ IsWhitespace(Head(chars)) THEN trimStart(Tail(chars)) ELSE chars

RECURSIVE trimEnd(_)
trimEnd(chars) ==
  IF chars # <<>> /\ IsWhitespace(chars[Len(chars)])
    THEN trimEnd(SubSeq(chars, 1, Len(chars) - 1)) ELSE chars

trim(chars) == trimEnd(trimStart(chars))

\* req.body.upload_id: undefined, a number n, the decimal string of n
\* ("numeral"), or a string that holds no number ("word").
JsUndefined == [t |-> "undefined", n |-> 0]
JsNumber(k) == [t |-> "number", n |-> k]
JsNumeral(k) == [t |-> "numeral", n |-> k]
JsWord == [t |-> "word", n |-> 0]
JsNull == [t |-> "null", n |-> 0]
JsNaN == [t |-> "NaN", n |-> 0]

\* Truthiness of an upload_id value: 0, NaN, null and undefined are falsy;
\* every non-empty string, "0" included, is truthy.
TruthyId(v) ==
  \/ v.t = "number" /\ v.n # 0
  \/ v.t \in {"numeral", "word"}

\* parseInt(upload_id)
parseInt(v) ==
  IF v.t \in {"number", "numeral"} THEN JsNumber(v.n) ELSE JsNaN

\* Decimal rendering of a small non-negative integer in a template string.
DigitChars ==
  <<"0", "1", "2", "3", "4", "5", "6", "7", "8", "9">>

RECURSIVE ToDecimal(_)
ToDecimal(n) ==
  IF n < 10 THEN <<DigitChars[n + 1]>>
  ELSE ToDecimal(n \div 10) \o <<DigitChars[(n % 10) + 1]>>

\* ------------------------------------------------------- persistence store
\* server/storage.ts: uploads and videos get serial ids; an Upload is never
\* deleted, so the stored Uploads are a sequence indexed by id.
storageCreateUpload(uploads, fields) ==
  Append(uploads, [id |-> Len(uploads) + 1,
                   user_id |-> fields.user_id,
                   hcp_text |-> fields.hcp_text,
                   document_path |-> fields.document_path])

storageHasUpload(uploads, id) == id \in 1..Len(uploads)

storageGetUpload(uploads, id) == uploads[id]

storageCreateVideo(videos, nextId, fields) ==
  videos \cup {[id |-> nextId] @@ fields}

storageHasVideo(videos, id) == \E v \in videos : v.id = id

\* deleteVideo(id): true iff a Video was stored under id; it is removed.
storageDeleteVideo(videos, id) == { v \in videos : v.id # id }

\* ---------------------------------------------------------- Script Drafter
MsgScriptError ==
  <<"Failed to generate script. Please try again later.">>

CardiologistLabel ==
  <<"Cardiologist">>

BannedScript ==
  <<"A", " ", "m", "i", "r", "a", "c", "l", "e", " ", "c", "u", "r", "e">>

\* What the LLM can answer to the drafting request: the call or JSON.parse
\* throws (ok = FALSE), or a JSON object is parsed whose script may be missing.
DraftScripts == {Str(BannedScript), Undefined}

DraftAnswers ==
  { [ok |-> TRUE, script |-> s, duration |-> 8, targetAudience |-> CardiologistLabel] :
      s \in DraftScripts }
  \cup { [ok |-> FALSE, script |-> Undefined, duration |-> 0, targetAudience |-> <<>>] }

\* generateScript: every failure of the try block becomes the generic error;
\* a parsed object is returned field by field, without validation.
generateScript(answer) ==
  IF answer.ok
    THEN [threw |-> FALSE, message |-> <<>>,
          script |-> answer.script, duration |-> answer.duration,
          targetAudience |-> answer.targetAudience]
    ELSE [threw |-> TRUE, message |-> MsgScriptError,
          script |-> Undefined, duration |-> 0, targetAudience |-> <<>>]

\* ------------------------------------------------ Video Synthesizer (HeyGen)
PlaceholderVideoUrl ==
  <<"https://assets.mixkit.co/videos/preview/mixkit-medical-team-in-a-hospital-room-31695-large", ".", "m", "p", "4">>

PlaceholderThumbnailUrl ==
  <<"https://assets.mixkit.co/videos/preview/mixkit-medical-team-in-a-hospital-room-31695-large", ".", "j", "p", "g">>

ProviderVideoUrl ==
  <<"https://files.heygen.ai/v/1", ".", "m", "p", "4">>

Mp4 ==
  <<".", "m", "p", "4">>

Jpg ==
  <<".", "j", "p", "g">>

\* String.prototype.replace(pattern, by) with a string pattern: the first
\* occurrence only.
replaceFirst(chars, pattern, by) ==
  IF includes(chars, pattern)
    THEN LET i == CHOOSE i \in 0..(Len(chars) - Len(pattern)) :
                    /\ SubSeq(chars, i + 1, i + Len(pattern)) = pattern
                    /\ \A j \in 0..(i - 1) : SubSeq(chars, j + 1, j + Len(pattern)) # pattern
         IN SubSeq(chars, 1, i) \o by \o SubSeq(chars, i + Len(pattern) + 1, Len(chars))
    ELSE chars

generateThumbnailUrl(videoUrl) == replaceFirst(videoUrl, Mp4, Jpg)

\* The provider's answers to the four HeyGen requests of one call:
\* submit: "id" (a job id came back), "noid" (answer without one), "error";
\* status: "url", "nourl", "error".
SubmitAnswers == {"id", "noid", "error"}
StatusAnswers == {"url", "nourl", "error"}
ProviderAnswers ==
  [v2 : SubmitAnswers, v1 : SubmitAnswers, video_status : StatusAnswers, task_status : StatusAnswers]

\* A status check that asks the first endpoint again and again.
checkVideoStatusPolling(p) ==
  IF p.video_status = "url"
    THEN [url |-> ProviderVideoUrl, calls |-> <<"video_status">>]
    ELSE [url |-> PlaceholderVideoUrl,
          calls |-> <<"video_status", "video_status", "video_status", "video_status">>]

\* checkVideoStatus: video_status first, task_status if it gave no URL,
\* the placeholder URL if neither did.
checkVideoStatus(p) ==
  IF p.video_status = "url"
    THEN [url |-> ProviderVideoUrl, calls |-> <<"video_status">>]
  ELSE IF p.task_status = "url"
    THEN [url |-> ProviderVideoUrl, calls |-> <<"video_status", "task_status">>]
  ELSE [url |-> PlaceholderVideoUrl, calls |-> <<"video_status", "task_status">>]

\* A catch block that hands back the thumbnail where the video belongs.
placeholderVideoSwapped(calls) ==
  [videoUrl |-> PlaceholderThumbnailUrl, thumbnailUrl |-> PlaceholderVideoUrl,
   videoId |-> "simulated-video-id", calls |-> calls]

\* The catch block of generateVideo.
placeholderVideo(calls) ==
  [videoUrl |-> PlaceholderVideoUrl, thumbnailUrl |-> PlaceholderThumbnailUrl,
   videoId |-> "simulated-video-id", calls |-> calls]

submittedVideo(videoId, submitCalls, p) ==
  LET videoData == checkVideoStatus(p)
  IN [videoUrl |-> videoData.url,
      thumbnailUrl |-> generateThumbnailUrl(videoData.url),
      videoId |-> videoId,
      calls |-> submitCalls \o videoData.calls]

\* A synthesizer that submits to both APIs whatever the first answers.
generateVideoBothApis(apiKey, p) ==
  IF ~apiKey THEN placeholderVideo(<<>>)
  ELSE IF p.v2 = "id" THEN submittedVideo("v2-video-id", <<"v2", "v1">>, p)
  ELSE IF p.v1 = "id" THEN submittedVideo("v1-task-id", <<"v2", "v1">>, p)
  ELSE placeholderVideo(<<"v2", "v1">>)

\* generateVideo(script, targetHCP) of heygenApi.ts.  calls lists the provider
\* requests made.
generateVideo(apiKey, p) ==
  IF ~apiKey THEN placeholderVideo(<<>>)
  ELSE IF p.v2 = "id" THEN submittedVideo("v2-video-id", <<"v2">>, p)
  ELSE IF p.v1 = "id" THEN submittedVideo("v1-task-id", <<"v2", "v1">>, p)
  ELSE placeholderVideo(<<"v2", "v1">>)

\* ------------------------------------------- HCP Segmenter (meditagEngine.ts)
KeySpecialty ==
  <<"s", "p", "e", "c", "i", "a", "l", "t", "y", ":">>

KeyPrescriptionRate ==
  <<"p", "r", "e", "s", "c", "r", "i", "p", "t", "i", "o", "n", "_", "r", "a",
    "t", "e", ":">>

KeyPracticeSize ==
  <<"p", "r", "a", "c", "t", "i", "c", "e", "_", "s", "i", "z", "e", ":">>

KeyYearsExperience ==
  <<"y", "e", "a", "r", "s", "_", "e", "x", "p", "e", "r", "i", "e", "n", "c",
    "e", ":">>

Cardiologist ==
  <<"C", "a", "r", "d", "i", "o", "l", "o", "g", "i", "s", "t">>

Oncologist ==
  <<"O", "n", "c", "o", "l", "o", "g", "i", "s", "t">>

Neurologist ==
  <<"N", "e", "u", "r", "o", "l", "o", "g", "i", "s", "t">>

Cardiology ==
  <<"C", "a", "r", "d", "i", "o", "l", "o", "g", "y">>

Oncology ==
  <<"O", "n", "c", "o", "l", "o", "g", "y">>

Neurology ==
  <<"N", "e", "u", "r", "o", "l", "o", "g", "y">>

Large ==
  <<"l", "a", "r", "g", "e">>

\* The character classes of the four patterns: [^,\n], [\d.], \d and \s.
IsDigit(c) == c \in {"0", "1", "2", "3", "4", "5", "6", "7", "8", "9"}

InClass(class, c) ==
  CASE class = "NotCommaNewline" -> c \notin {",", "\n"}
    [] class = "DigitOrDot" -> IsDigit(c) \/ c = "."
    [] class = "Digit" -> IsDigit(c)
    [] class = "Whitespace" -> IsWhitespace(c)

\* The last position of the longest run of characters of a class that
\* starts at position from (from - 1 when the run is empty).
runEnd(chars, from, class) ==
  CHOOSE e \in (from - 1)..Len(chars) :
    /\ \A j \in from..e : InClass(class, chars[j])
    /\ e < Len(chars) => ~InClass(class, chars[e + 1])

\* The key of a pattern stands at offset i of the text; the i flag makes the
\* comparison case-insensitive.
keyAt(chars, key, i) ==
  /\ i + Len(key) <= Len(chars)
  /\ toLowerCase(SubSeq(chars, i + 1, i + Len(key))) = key

\* Where the group of /key\s*(class+)/ can begin after the key at offset i:
\* behind the white space, or inside it when \s* has to give characters back.
groupStarts(chars, key, i, class) ==
  { s \in (i + Len(key) + 1)..(runEnd(chars, i + Len(key) + 1, "Whitespace") + 1) :
      s <= Len(chars) /\ InClass(class, chars[s]) }

\* hcpText.match(/key\s*(class+)/i): the text of group 1 of the leftmost
\* match, or undefined when nothing matches.
matchGroup(chars, key, class) ==
  LET hits == { i \in 0..Len(chars) :
                  keyAt(chars, key, i) /\ groupStarts(chars, key, i, class) # {} }
  IN IF hits = {} THEN Undefined
     ELSE LET i == CHOOSE h \in hits : \A g \in hits : h <= g
              starts == groupStarts(chars, key, i, class)
              s == CHOOSE a \in starts : \A b \in starts : b <= a
          IN Str(SubSeq(chars, s, runEnd(chars, s, class)))

\* The number a run of decimal digits stands for.
RECURSIVE FromDecimal(_)
FromDecimal(digits) ==
  IF digits = <<>> THEN 0
  ELSE 10 * FromDecimal(SubSeq(digits, 1, Len(digits) - 1))
       + ((CHOOSE d \in 1..10 : DigitChars[d] = digits[Len(digits)]) - 1)

\* A number of the profile: undefined, NaN, or the fraction num / den.
NoNumber == [t |-> "undefined", num |-> 0, den |-> 1]
NotANumber == [t |-> "NaN", num |-> 0, den |-> 1]
Fraction(num, den) == [t |-> "number", num |-> num, den |-> den]

\* parseFloat on a run of digits and dots: the longest prefix that is a
\* decimal literal, NaN when that prefix holds no digit.
parseFloat(chars) ==
  LET intEnd == runEnd(chars, 1, "Digit")
      hasDot == intEnd < Len(chars) /\ chars[intEnd + 1] = "."
      fracEnd == IF hasDot THEN runEnd(chars, intEnd + 2, "Digit") ELSE intEnd + 1
      intDigits == SubSeq(chars, 1, intEnd)
      fracDigits == SubSeq(chars, intEnd + 2, fracEnd)
  IN IF intDigits = <<>> /\ fracDigits = <<>> THEN NotANumber
     ELSE Fraction(FromDecimal(intDigits \o fracDigits), 10 ^ Len(fracDigits))

\* parseHCPData(hcpText)
parseHCPData(hcpText) ==
  LET specialtyMatch == matchGroup(hcpText, KeySpecialty, "NotCommaNewline")
      prescriptionRateMatch == matchGroup(hcpText, KeyPrescriptionRate, "DigitOrDot")
      practiceSizeMatch == matchGroup(hcpText, KeyPracticeSize, "NotCommaNewline")
      yearsExperienceMatch == matchGroup(hcpText, KeyYearsExperience, "Digit")
  IN [specialty |->
        IF specialtyMatch.t = "string" THEN Str(trim(specialtyMatch.s))
        ELSE IF includes(hcpText, Cardiologist) THEN Str(Cardiology)
        ELSE IF includes(hcpText, Oncologist) THEN Str(Oncology)
        ELSE IF includes(hcpText, Neurologist) THEN Str(Neurology)
        ELSE Undefined,
      prescription_rate |->
        IF prescriptionRateMatch.t = "string" THEN parseFloat(prescriptionRateMatch.s)
        ELSE NoNumber,
      practice_size |->
        IF practiceSizeMatch.t = "string" THEN Str(trim(practiceSizeMatch.s))
        ELSE Undefined,
      years_experience |->
        IF yearsExperienceMatch.t = "string"
          THEN Fraction(FromDecimal(yearsExperienceMatch.s), 1)
          ELSE NoNumber]

\* Comparisons that take the boundary into the upper band.
atLeastTenths(x, k) == x.t = "number" /\ 10 * x.num >= k * x.den

atMostTenths(x, k) == x.t = "number" /\ 10 * x.num <= k * x.den

\* x > k / 10 and x < k / 10 on a profile number; every comparison with
\* NaN is false.
greaterThanTenths(x, k) == x.t = "number" /\ 10 * x.num > k * x.den
lessThanTenths(x, k) == x.t = "number" /\ 10 * x.num < k * x.den

\* A confidence is a double: hundredths, and what the double exceeds them by,
\* in units of 1e-16.
Confidence(h) == [hundredths |-> h, excess |-> 0]

\* confidence -= 0.1 and confidence += 0.05, in double arithmetic, on the
\* confidences the rules assign (0.8 - 0.1 is 0.7000000000000001 and
\* 0.9 + 0.05 is 0.9500000000000001; the other results are exact).
minusTenth(c) ==
  IF c.hundredths = 80 THEN [hundredths |-> 70, excess |-> 1]
  ELSE Confidence(c.hundredths - 10)

\* An adjustment that adds a half instead of a twentieth.
plusHalf(c) == Confidence(c.hundredths + 50)

plusTwentieth(c) ==
  IF c.hundredths = 90 THEN [hundredths |-> 95, excess |-> 1]
  ELSE Confidence(c.hundredths + 5)

\* segmentHCP, lines 87-118: the segment and confidence before the
\* specialty adjustment.
baseSegment(hcpData) ==
  LET rate == hcpData.prescription_rate
      years == hcpData.years_experience
  IN IF rate.t # "undefined"
       THEN IF greaterThanTenths(rate, 7)
              THEN [segment |-> "Early Adopter", confidence |-> Confidence(85)]
            ELSE IF greaterThanTenths(rate, 4)
              THEN IF years.t # "undefined" /\ greaterThanTenths(years, 100)
                     THEN [segment |-> "Evidence Driven", confidence |-> Confidence(90)]
                     ELSE [segment |-> "Mainstream", confidence |-> Confidence(75)]
            ELSE [segment |-> "Conservative", confidence |-> Confidence(80)]
     ELSE IF years.t # "undefined"
       THEN IF greaterThanTenths(years, 150)
              THEN [segment |-> "Evidence Driven", confidence |-> Confidence(70)]
            ELSE IF lessThanTenths(years, 50)
              THEN [segment |-> "Early Adopter", confidence |-> Confidence(60)]
            ELSE [segment |-> "General", confidence |-> Confidence(70)]
     ELSE [segment |-> "General", confidence |-> Confidence(70)]

\* An adjustment that lowers the confidence of every large cardiology
\* practice, the Mainstream ones too.
adjustedConfidenceEveryLarge(hcpData, base) ==
  IF hcpData.specialty = Str(Oncology)
    THEN IF base.segment # "Evidence Driven"
           THEN minusTenth(base.confidence)
           ELSE plusTwentieth(base.confidence)
  ELSE IF hcpData.specialty = Str(Cardiology)
    THEN IF hcpData.practice_size = Str(Large)
           THEN minusTenth(base.confidence)
           ELSE base.confidence
  ELSE base.confidence

\* segmentHCP, lines 120-133: the specialty adjustment.
adjustedConfidence(hcpData, base) ==
  IF hcpData.specialty = Str(Oncology)
    THEN IF base.segment # "Evidence Driven"
           THEN minusTenth(base.confidence)
           ELSE plusTwentieth(base.confidence)
  ELSE IF hcpData.specialty = Str(Cardiology)
    THEN IF hcpData.practice_size = Str(Large) /\ base.segment # "Mainstream"
           THEN minusTenth(base.confidence)
           ELSE base.confidence
  ELSE base.confidence

\* segmentHCP(hcpData); segmentReason, a text for display, is left out of
\* the characteristics.
segmentHCP(hcpData) ==
  LET base == baseSegment(hcpData)
  IN [segment |-> base.segment,
      confidence |-> adjustedConfidence(hcpData, base),
      characteristics |-> hcpData]

\* analyzeHCP(hcpText): neither parseHCPData nor segmentHCP throws on a string.
analyzeHCP(hcpText) == segmentHCP(parseHCPData(hcpText))

\* --------------------------------------------------------------- the runs
\* Videos ever stored (the cap of the videos table's serial).
MaxVideos == 1
\* Uploads ever stored.
MaxUploads == 1

DefaultHcpText ==
  <<"C", "a", "r", "d", "i", "o", "l", "o", "g", "i", "s", "t", " ", "w", "i",
    "t", "h", " ", "1", "0", " ", "y", "e", "a", "r", "s", " ", "o", "f", " ",
    "e", "x", "p", "e", "r", "i", "e", "n", "c", "e", ",", " ", "w", "o", "r",
    "k", "i", "n", "g", " ", "i", "n", " ", "a", " ", "l", "a", "r", "g", "e",
    " ", "h", "o", "s", "p", "i", "t", "a", "l", " ", "s", "e", "t", "t", "i",
    "n", "g">>

Anonymous ==
  <<"anonymous">>

SamplePrompt ==
  <<"C", "r", "e", "a", "t", "e", " ", "a", " ", "v", "i", "d", "e", "o", " ",
    "a", "b", "o", "u", "t", " ", "s", "t", "a", "t", "i", "n", "s">>

SampleHcpText ==
  <<"O", "n", "c", "o", "l", "o", "g", "i", "s", "t", ",", " ", "y", "e", "a",
    "r", "s", "_", "e", "x", "p", "e", "r", "i", "e", "n", "c", "e", ":", " ",
    "1", "6">>

SampleDocumentPath ==
  <<"/uploads/a.txt">>

MsgNotFoundHead ==
  <<"Upload with ID ">>

MsgNotFoundTail ==
  <<" not found">>

MsgTypeError ==
  <<"Cannot read properties of undefined (reading 'toLowerCase')">>

MsgPromptRequired ==
  <<"Prompt is required for video generation">>

MsgGenerated ==
  <<"Video generated successfully">>

MsgFailed ==
  <<"Failed to generate video">>

VeoApiError ==
  <<"VEO API error">>

InsufficientCredits ==
  <<"Insufficient credits">>

\* The handler invocations that can be in flight at once.
RunIds == {1, 2}

\* Request bodies of POST /api/generate-video.
BodyUploadIds ==
  {JsUndefined, JsWord, JsNumeral(0)} \cup { JsNumber(k) : k \in 0..MaxUploads }
BodyPrompts == {Undefined, Str(<<>>), Str(SamplePrompt)}
BodyHcpTexts == {Undefined, Str(<<>>), Str(<<" ", " ">>), Str(SampleHcpText)}

\* The LLM's answers to the compliance request within a run.
RunLlmOutcomes ==
  { o \in LlmOutcomes :
      o.ok => /\ o.details.issues = <<>>
              /\ o.details.recommendations = <<>>
              /\ o.details.score = (IF o.details.passed THEN 100 ELSE 59) }

NoBody == [upload_id |-> JsUndefined, prompt |-> Undefined, hcp_text |-> Undefined]
NoProfile ==
  [specialty |-> Undefined, prescription_rate |-> NoNumber, practice_size |-> Undefined,
   years_experience |-> NoNumber]
NoBase == [segment |-> "none", confidence |-> Confidence(0)]
NoMeditag == [segment |-> "none", confidence |-> Confidence(0), characteristics |-> NoProfile]
NoScript == [threw |-> FALSE, message |-> <<>>, script |-> Undefined, duration |-> 0,
             targetAudience |-> <<>>]
NoAnswers ==
  [v2 |-> "error", v1 |-> "error", video_status |-> "error", task_status |-> "error"]
NoVideoResult ==
  [videoUrl |-> <<>>, thumbnailUrl |-> <<>>, videoId |-> "none", calls |-> <<>>]
NoResponse ==
  [status |-> 0, id |-> 0, title |-> <<>>, compliance |-> "none", api_error |-> FALSE,
   message |-> <<>>]
NoVideo == [id |-> 0]
NoStats ==
  [compliance_rate |-> 0, videos_generated |-> 0, videos_passed |-> 0, avg_duration |-> 0]

\* A handler invocation.  The locals of createVideo are kept for as long as
\* the code still reads them; the fields below outcome record what the run
\* has done.
IdleRun ==
  [pc |-> "idle",
   route |-> "none",              \* "generate-video" or "videos/:id", the route taken
   params |-> JsUndefined,        \* req.params.id of a delete request
   body |-> NoBody,               \* req.body, until the input is resolved
   uploadId |-> JsNull,           \* createVideo's arguments
   prompt |-> <<>>,
   hcpText |-> Undefined,
   finalHcpText |-> <<>>,
   uploadIdToUse |-> JsNull,
   documentPath |-> Undefined,
   meditagResult |-> NoMeditag,
   scriptResult |-> NoScript,
   complianceResult |-> ComplianceThrew,
   videoResult |-> NoVideoResult,
   evaluated |-> Undefined,       \* the script evaluateCompliance was called with
   synthesized |-> Undefined,     \* the script generateVideo was called with
   videoId |-> 0,                 \* id of the Video returned by createVideo
   video |-> NoVideo,             \* the Video returned by createVideo
   error |-> <<>>,                \* message of the error thrown
   response |-> NoResponse,
   outcome |-> "none",            \* "Done", "Failed" or "Rejected", once answered
   branch |-> "none",             \* which input-resolution branch was taken
   textPassedOver |-> FALSE,      \* HCP text was given and a stored Upload used
   failedAt |-> "none",           \* the stage in which the run threw
   createdUploads |-> {},         \* ids of the Uploads this run created
   createdVideos |-> {},          \* ids of the Videos this run created
   deletedVideos |-> {},          \* ids of the Videos this request deleted
   stats |-> NoStats,             \* the statistics a stats request returned
   llmCalls |-> 0,                \* LLM requests made by this run
   providerCalls |-> 0,           \* video-provider requests made by this run
   providerFailed |-> FALSE,      \* the provider gave this run no video
   serviceCalls |-> 0]            \* calls of videoService.createVideo

\* ------------------------------------------------------------------ state
VARIABLES
  cPc,       \* evaluator call: "called" or "returned" or "threw"
  cScript,   \* the script the evaluator was called with
  cLlm,      \* the outcome of its checkCompliance call
  cResult,   \* the ComplianceResult it returned
  uploads,   \* stored Uploads, by id
  videos,    \* stored Videos
  nextVideoId,  \* the videos table's serial
  inFlight,  \* how many requests the deployment is given at once
  runs,      \* the requests being handled
  runsDone,  \* how many runs have reached Done
  deletions, \* how many delete requests have removed a Video
  sPc,       \* segmenter call: "called" or "returned"
  sHcpText,  \* the HCP text analyzeHCP was called with
  sBase,     \* the segment and confidence before the specialty adjustment
  sResult,   \* the MeditagResult it returned
  previewVideo,     \* the video prop of VideoPreview (null: NoVideo)
  complianceState,  \* VideoPreview's complianceState ("null" or a status)
  hPc,       \* synthesizer call: "called" or "returned"
  hKey,      \* whether the call finds HEYGEN_API_KEY in the environment
  hAnswers,  \* what the provider answers to each request of the call
  hResult    \* the result generateVideo returned

complianceVars == <<cPc, cScript, cLlm, cResult>>
pipelineVars == <<uploads, videos, nextVideoId, inFlight, runs, runsDone, deletions>>
segmentVars == <<sPc, sHcpText, sBase, sResult>>
previewVars == <<previewVideo, complianceState>>
heygenVars == <<hPc, hKey, hAnswers, hResult>>
vars ==
  <<cPc, cScript, cLlm, cResult, uploads, videos, nextVideoId, inFlight, runs, runsDone,
    deletions, sPc, sHcpText, sBase, sResult, previewVideo, complianceState,
    hPc, hKey, hAnswers, hResult>>

\* ------------------------------------------------- controller and service
\* errorMessage.includes("VEO API error") || errorMessage.includes("Insufficient credits")
isApiError(message) ==
  includes(message, VeoApiError) \/ includes(message, InsufficientCredits)

Fail(run, stage, message) ==
  [run EXCEPT !.pc = "Failed", !.failedAt = stage, !.error = message]

\* The response of the 400 branch.
rejected ==
  [status |-> 400, id |-> 0, title |-> <<>>, compliance |-> "none", api_error |-> FALSE,
   message |-> MsgPromptRequired]

\* if (uploadId)
TruthyUploadId(uploadId) == uploadId.t = "number" /\ uploadId.n # 0

\* An input resolution that looks at the HCP text before the upload id.
resolveBranchTextFirst(uploadId, hcpText, found) ==
  IF TruthyText(hcpText)
    THEN (IF trim(hcpText.s) # <<>> THEN "hcpText" ELSE "blank")
  ELSE IF TruthyUploadId(uploadId) THEN (IF found THEN "upload" ELSE "notFound")
  ELSE "default"

\* An input resolution that goes on to the text when the upload is missing.
resolveBranchNoThrow(uploadId, hcpText, found) ==
  IF TruthyUploadId(uploadId) /\ found THEN "upload"
  ELSE IF TruthyText(hcpText)
    THEN (IF trim(hcpText.s) # <<>> THEN "hcpText" ELSE "blank")
  ELSE "default"

\* The branch of createVideo's input resolution (lines 31-65); found tells
\* whether storage.getUpload returned a record.
resolveBranch(uploadId, hcpText, found) ==
  IF TruthyUploadId(uploadId) THEN (IF found THEN "upload" ELSE "notFound")
  ELSE IF TruthyText(hcpText)
    THEN (IF trim(hcpText.s) # <<>> THEN "hcpText" ELSE "blank")
  ELSE "default"

\* An input resolution that ignores the stored profile.
resolvedHcpTextDefault(branch, hcpText, upload) ==
  CASE branch = "hcpText" -> hcpText.s
    [] OTHER -> DefaultHcpText

\* finalHcpText in each branch that goes on.
resolvedHcpText(branch, hcpText, upload) ==
  CASE branch = "upload" -> upload.hcp_text
    [] branch = "hcpText" -> hcpText.s
    [] OTHER -> DefaultHcpText

\* An input resolution that stores no Upload for raw HCP text.
uploadsToCreateDefaultOnly(branch, hcpText) ==
  CASE branch = "default" ->
         <<[user_id |-> Anonymous, hcp_text |-> DefaultHcpText, document_path |-> Undefined]>>
    [] OTHER -> <<>>

\* An input resolution that stores the default profile for raw HCP text.
uploadsToCreateDefaultText(branch, hcpText) ==
  CASE branch \in {"hcpText", "default"} ->
         <<[user_id |-> Anonymous, hcp_text |-> DefaultHcpText, document_path |-> Undefined]>>
    [] OTHER -> <<>>

\* The storage.createUpload calls of each branch: their arguments, in order.
uploadsToCreate(branch, hcpText) ==
  CASE branch = "hcpText" ->
         <<[user_id |-> Anonymous, hcp_text |-> hcpText.s, document_path |-> Undefined]>>
    [] branch = "default" ->
         <<[user_id |-> Anonymous, hcp_text |-> DefaultHcpText, document_path |-> Undefined]>>
    [] OTHER -> <<>>

NoUpload == [id |-> 0, user_id |-> <<>>, hcp_text |-> <<>>, document_path |-> Undefined]

\* "Upload with ID ${uploadId} not found"
notFoundMessage(id) == MsgNotFoundHead \o ToDecimal(id) \o MsgNotFoundTail

\* The Uploads that the runs handed to createVideo are still to store, and
\* whether createVideo called with these arguments stores one.  (The branch
\* of a call that stores an Upload does not depend on what is stored.)
storesUpload(uploadId, hcpText) ==
  uploadsToCreate(resolveBranch(uploadId, hcpText, FALSE), hcpText) # <<>>

pendingUploads ==
  Cardinality({ q \in RunIds :
                  /\ runs[q].pc = "ResolvingInput"
                  /\ storesUpload(runs[q].uploadId, runs[q].hcpText) })

\* videoController.generateVideo up to the call of createVideo: the prompt
\* check, and the conversion of upload_id.  A request is taken while the
\* videos table, and the uploads table if the run is to store an Upload,
\* have room under the bounds: cap is the number of Videos ever stored,
\* uploadCap the number of Uploads, and the body is drawn from ids, prompts
\* and texts.
RequestOf(r, cap, uploadCap, ids, prompts, texts) ==
  /\ runs[r].pc = "idle"
  /\ \A q \in RunIds : q < r => runs[q].pc # "idle"
  /\ Cardinality({q \in RunIds : runs[q].pc # "idle"}) < inFlight
  /\ nextVideoId <= cap
  /\ \E u \in ids, p \in prompts, h \in texts :
       LET body == [upload_id |-> u, prompt |-> p, hcp_text |-> h]
           uploadId == IF TruthyId(u) THEN parseInt(u) ELSE JsNull
       IN IF ~TruthyText(p)
            THEN runs' = [runs EXCEPT ![r] =
                   [@ EXCEPT !.pc = "Responded", !.route = "generate-video",
                             !.body = body, !.outcome = "Rejected",
                             !.response = rejected]]
            ELSE /\ storesUpload(uploadId, h) => Len(uploads) + pendingUploads < uploadCap
                 /\ runs' = [runs EXCEPT ![r] =
                      [@ EXCEPT !.pc = "ResolvingInput", !.route = "generate-video",
                                !.body = body,
                                !.uploadId = uploadId,
                                !.prompt = p.s,
                                !.hcpText = h,
                                !.serviceCalls = @ + 1]]
  /\ UNCHANGED <<uploads, videos, nextVideoId, inFlight, runsDone, deletions>>
  /\ UNCHANGED <<complianceVars, segmentVars, previewVars, heygenVars>>

Request(r) ==
  RequestOf(r, MaxVideos, MaxUploads, BodyUploadIds, BodyPrompts, BodyHcpTexts)

\* createVideo, lines 27-65: input resolution.
ResolveInput(r) ==
  /\ runs[r].pc = "ResolvingInput"
  /\ LET run == runs[r]
         found == TruthyUploadId(run.uploadId) /\ storageHasUpload(uploads, run.uploadId.n)
         upload == IF found THEN storageGetUpload(uploads, run.uploadId.n) ELSE NoUpload
         branch == resolveBranch(run.uploadId, run.hcpText, found)
         inserts == uploadsToCreate(branch, run.hcpText)
     IN IF branch = "notFound"
          THEN /\ runs' = [runs EXCEPT ![r] =
                    [Fail(run, "ResolvingInput", notFoundMessage(run.uploadId.n))
                       EXCEPT !.branch = branch]]
               /\ UNCHANGED uploads
          ELSE /\ uploads' = IF inserts = <<>> THEN uploads
                             ELSE storageCreateUpload(uploads, inserts[1])
               /\ runs' = [runs EXCEPT ![r] =
                    [run EXCEPT !.pc = "Segmenting", !.branch = branch,
                                !.textPassedOver =
                                  branch = "upload" /\ TruthyText(run.hcpText),
                                !.body = NoBody, !.uploadId = JsNull, !.hcpText = Undefined,
                                !.finalHcpText = resolvedHcpText(branch, run.hcpText, upload),
                                !.uploadIdToUse = IF inserts = <<>> THEN run.uploadId
                                                  ELSE JsNumber(Len(uploads')),
                                !.documentPath = upload.document_path,
                                !.createdUploads = IF inserts = <<>> THEN {}
                                                   ELSE {Len(uploads')}]]
  /\ UNCHANGED <<videos, nextVideoId, inFlight, runsDone, deletions>>
  /\ UNCHANGED <<complianceVars, segmentVars, previewVars, heygenVars>>

\* analyzeHCP on the HCP texts a run can resolve, worked out once.
MeditagResults ==
  DefaultHcpText :> analyzeHCP(DefaultHcpText) @@ SampleHcpText :> analyzeHCP(SampleHcpText)

\* createVideo, line 68: analyzeHCP.
Segment(r) ==
  /\ runs[r].pc = "Segmenting"
  /\ runs' = [runs EXCEPT ![r] =
       [@ EXCEPT !.pc = "Drafting", !.meditagResult = MeditagResults[runs[r].finalHcpText]]]
  /\ UNCHANGED <<uploads, videos, nextVideoId, inFlight, runsDone, deletions>>
  /\ UNCHANGED <<complianceVars, segmentVars, previewVars, heygenVars>>

\* createVideo, line 71: generateScript, the last reader of finalHcpText
\* and documentPath.
Draft(r) ==
  /\ runs[r].pc = "Drafting"
  /\ \E answer \in DraftAnswers :
       LET run == [runs[r] EXCEPT !.llmCalls = @ + 1,
                                  !.finalHcpText = <<>>, !.documentPath = Undefined]
           scriptResult == generateScript(answer)
       IN runs' = [runs EXCEPT ![r] =
            IF scriptResult.threw
              THEN Fail(run, "Drafting", scriptResult.message)
              ELSE [run EXCEPT !.pc = "Evaluating", !.scriptResult = scriptResult]]
  /\ UNCHANGED <<uploads, videos, nextVideoId, inFlight, runsDone, deletions>>
  /\ UNCHANGED <<complianceVars, segmentVars, previewVars, heygenVars>>

\* createVideo, lines 74, 78 and 91: the script handed to evaluateCompliance,
\* the script handed to generateVideo, and the script stored.
evaluatorScript(scriptResult) == scriptResult.script

\* A service that hands the synthesizer a script of its own.
synthesizerScriptOther(scriptResult) == Str(<<>>)

synthesizerScript(scriptResult) == scriptResult.script

storedScript(scriptResult) == scriptResult.script.s

\* A service that stores every Video as Passed.
storedStatusPassed(complianceResult) == "Passed"

\* createVideo, line 89: the status stored.
storedStatus(complianceResult) == complianceResult.status

\* evaluateCompliance on the given scripts and model answers, as a table.
RECURSIVE ComplianceTable(_)
ComplianceTable(pairs) ==
  IF pairs = {} THEN <<>>
  ELSE LET p == CHOOSE q \in pairs : TRUE
       IN (p :> evaluateCompliance(p[1], p[2])) @@ ComplianceTable(pairs \ {p})

\* evaluateCompliance on the scripts a run can hold, worked out once.
ComplianceResults ==
  ComplianceTable(DraftScripts \X RunLlmOutcomes)

\* createVideo, line 74: evaluateCompliance.
Evaluate(r) ==
  /\ runs[r].pc = "Evaluating"
  /\ \E llm \in RunLlmOutcomes :
       LET run == [runs[r] EXCEPT !.llmCalls = @ + 1]
           script == evaluatorScript(run.scriptResult)
           complianceResult == ComplianceResults[<<script, llm>>]
       IN runs' = [runs EXCEPT ![r] =
            IF complianceResult.threw
              THEN Fail([run EXCEPT !.evaluated = script], "Evaluating", MsgTypeError)
              ELSE [run EXCEPT !.pc = "Synthesizing", !.evaluated = script,
                               !.complianceResult = complianceResult]]
  /\ UNCHANGED <<uploads, videos, nextVideoId, inFlight, runsDone, deletions>>
  /\ UNCHANGED <<complianceVars, segmentVars, previewVars, heygenVars>>

\* The provider gives no video: the key is missing, both submissions fail
\* (an error, or an answer without a job id), or neither status request
\* gives a URL.
providerFails(key, p) ==
  \/ ~key
  \/ p.v2 # "id" /\ p.v1 # "id"
  \/ p.video_status # "url" /\ p.task_status # "url"

\* createVideo, line 78: generateVideo.  key tells whether the call finds
\* HEYGEN_API_KEY in the environment.
Synthesize(r) ==
  /\ runs[r].pc = "Synthesizing"
  /\ \E key \in BOOLEAN, p \in ProviderAnswers :
       LET videoResult == generateVideo(key, p)
       IN runs' = [runs EXCEPT ![r] =
            [@ EXCEPT !.pc = "Persisting", !.videoResult = videoResult,
                      !.synthesized = synthesizerScript(runs[r].scriptResult),
                      !.providerCalls = @ + Len(videoResult.calls),
                      !.providerFailed = providerFails(key, p)]]
  /\ UNCHANGED <<uploads, videos, nextVideoId, inFlight, runsDone, deletions>>
  /\ UNCHANGED <<complianceVars, segmentVars, previewVars, heygenVars>>

\* A service that keeps the upload id in a place all runs share: the Video
\* gets the id of the Upload stored last.
uploadIdOrZeroShared(uploadIdToUse) == Len(uploads)

\* A service that stores every Video under upload id 0.
uploadIdOrZeroAlways(uploadIdToUse) == 0

\* uploadIdToUse || 0
uploadIdOrZero(uploadIdToUse) ==
  IF TruthyUploadId(uploadIdToUse) THEN uploadIdToUse.n ELSE 0

CreateA ==
  <<"c", "r", "e", "a", "t", "e", " ", "a">>

VideoFor ==
  <<"v", "i", "d", "e", "o", " ", "f", "o", "r">>

About ==
  <<"a", "b", "o", "u", "t">>

InformationVideo ==
  <<" ", "I", "n", "f", "o", "r", "m", "a", "t", "i", "o", "n", " ", "V", "i",
    "d", "e", "o">>

\* String.prototype.replace(/a|b|c/g, ''): from left to right, the first
\* alternative that matches at a position is removed.
RECURSIVE removeAll(_, _)
removeAll(chars, alternatives) ==
  IF chars = <<>> THEN <<>>
  ELSE LET matching == { k \in 1..Len(alternatives) :
                           /\ Len(alternatives[k]) <= Len(chars)
                           /\ SubSeq(chars, 1, Len(alternatives[k])) = alternatives[k] }
       IN IF matching = {}
            THEN <<Head(chars)>> \o removeAll(Tail(chars), alternatives)
            ELSE LET k == CHOOSE a \in matching : \A b \in matching : a <= b
                 IN removeAll(SubSeq(chars, Len(alternatives[k]) + 1, Len(chars)),
                              alternatives)

\* String.prototype.split(separator), the separator one character.
RECURSIVE split(_, _)
split(chars, separator) ==
  IF \A i \in 1..Len(chars) : chars[i] # separator THEN <<chars>>
  ELSE LET i == CHOOSE k \in 1..Len(chars) :
                  chars[k] = separator /\ \A j \in 1..(k - 1) : chars[j] # separator
       IN <<SubSeq(chars, 1, i - 1)>> \o split(SubSeq(chars, i + 1, Len(chars)), separator)

\* Array.prototype.join(separator)
RECURSIVE join(_, _)
join(words, separator) ==
  IF words = <<>> THEN <<>>
  ELSE IF Len(words) = 1 THEN words[1]
  ELSE words[1] \o separator \o join(Tail(words), separator)

\* String.prototype.toUpperCase on one character.
UpperChar(c) ==
  IF \E i \in 1..Len(LowerCase) : LowerCase[i] = c
    THEN UpperCase[CHOOSE i \in 1..Len(LowerCase) : LowerCase[i] = c]
    ELSE c

\* word => word.length > 3
isKeyword(word) == Len(word) > 3

\* word => word.charAt(0).toUpperCase() + word.slice(1)
capitalize(word) == <<UpperChar(word[1])>> \o Tail(word)

\* getVideoTitle(prompt, targetHCP)
getVideoTitle(prompt, targetHCP) ==
  LET words == SelectSeq(split(removeAll(toLowerCase(prompt), <<CreateA, VideoFor, About>>),
                               " "),
                         isKeyword)
      keywords == [i \in 1..(IF Len(words) < 3 THEN Len(words) ELSE 3) |->
                     capitalize(words[i])]
  IN IF Len(keywords) = 0 THEN targetHCP \o InformationVideo
     ELSE targetHCP \o <<" ">> \o join(keywords, <<" ">>)

\* getVideoTitle on the prompt and audience a run can hold, worked out once.
VideoTitles ==
  <<SamplePrompt, CardiologistLabel>> :> getVideoTitle(SamplePrompt, CardiologistLabel)

\* createVideo, lines 81-99: the Video record is assembled, stored and
\* returned.
Persist(r) ==
  /\ runs[r].pc = "Persisting"
  /\ LET run == runs[r]
         insertVideo ==
           [upload_id |-> uploadIdOrZero(run.uploadIdToUse),
            title |-> VideoTitles[<<run.prompt, run.scriptResult.targetAudience>>],
            prompt |-> run.prompt,
            target_hcp |-> run.scriptResult.targetAudience,
            video_url |-> run.videoResult.videoUrl,
            thumbnail_url |-> run.videoResult.thumbnailUrl,
            duration |-> run.scriptResult.duration,
            compliance_status |-> storedStatus(run.complianceResult),
            meditag_segment |-> run.meditagResult.segment,
            generated_script |-> storedScript(run.scriptResult),
            compliance_details |-> run.complianceResult.details]
     IN /\ videos' = storageCreateVideo(videos, nextVideoId, insertVideo)
        /\ nextVideoId' = nextVideoId + 1
        /\ runs' = [runs EXCEPT ![r] =
             [run EXCEPT !.pc = "Done", !.videoId = nextVideoId,
                         !.video = [id |-> nextVideoId] @@ insertVideo,
                         !.createdVideos = {nextVideoId},
                         !.prompt = <<>>, !.uploadIdToUse = JsNull,
                         !.meditagResult = NoMeditag, !.scriptResult = NoScript,
                         !.complianceResult = ComplianceThrew,
                         !.videoResult = NoVideoResult]]
  /\ runsDone' = runsDone + 1
  /\ UNCHANGED <<uploads, inFlight, deletions>>
  /\ UNCHANGED <<complianceVars, segmentVars, previewVars, heygenVars>>

\* What the handler's run leaves behind once it has answered.
Answered(run, response) ==
  [IdleRun EXCEPT !.pc = "Responded", !.response = response, !.outcome = run.pc,
                  !.route = run.route,
                  !.body = run.body, !.branch = run.branch, !.failedAt = run.failedAt,
                  !.error = run.error,
                  !.createdUploads = run.createdUploads,
                  !.createdVideos = run.createdVideos,
                  !.llmCalls = run.llmCalls, !.providerCalls = run.providerCalls,
                  !.providerFailed = run.providerFailed,
                  !.serviceCalls = run.serviceCalls]

\* videoController.generateVideo, lines 57-87: the answer to the caller.
Respond(r) ==
  /\ runs[r].pc \in {"Done", "Failed"}
  /\ LET run == runs[r]
         video == run.video
         response ==
           IF run.pc = "Done"
             THEN [status |-> 201, id |-> video.id, title |-> video.title,
                   compliance |-> video.compliance_status, api_error |-> FALSE,
                   message |-> MsgGenerated]
           ELSE IF isApiError(run.error)
             THEN [status |-> 201, id |-> 0, title |-> <<>>, compliance |-> "none",
                   api_error |-> TRUE, message |-> run.error]
           ELSE [status |-> 500, id |-> 0, title |-> <<>>, compliance |-> "none",
                 api_error |-> FALSE,
                 message |-> IF run.error # <<>> THEN run.error ELSE MsgFailed]
     IN runs' = [runs EXCEPT ![r] = Answered(run, response)]
  /\ UNCHANGED <<uploads, videos, nextVideoId, inFlight, runsDone, deletions>>
  /\ UNCHANGED <<complianceVars, segmentVars, previewVars, heygenVars>>

\* The handler has returned; its invocation is gone.
Retire(r) ==
  /\ runs[r].pc = "Responded"
  /\ runs' = [runs EXCEPT ![r] = IdleRun]
  /\ UNCHANGED <<uploads, videos, nextVideoId, inFlight, runsDone, deletions>>
  /\ UNCHANGED <<complianceVars, segmentVars, previewVars, heygenVars>>

MsgInvalidVideoId ==
  <<"Invalid video ID">>

MsgDeleted ==
  <<"Video deleted successfully">>

MsgVideoNotFound ==
  <<"Video not found">>

\* req.params.id of DELETE /api/videos/:id: a path segment, so a string.
DeleteIds == {JsWord} \cup { JsNumeral(k) : k \in 0..(MaxVideos + 2) }

\* A handler that lets the missing Video surface as a server error.
deleteResponseThrowing(id, success) ==
  IF id.t = "NaN" THEN [status |-> 400, message |-> MsgInvalidVideoId]
  ELSE IF success THEN [status |-> 200, message |-> MsgDeleted]
  ELSE [status |-> 500, message |-> <<"Failed to delete video">>]

\* The answer of deleteVideoById: id is parseInt(req.params.id), success
\* what videoService.deleteVideo returned.
deleteResponse(id, success) ==
  IF id.t = "NaN" THEN [status |-> 400, message |-> MsgInvalidVideoId]
  ELSE IF success THEN [status |-> 200, message |-> MsgDeleted]
  ELSE [status |-> 404, message |-> MsgVideoNotFound]

\* videoController.deleteVideoById with videoService.deleteVideo:
\* DELETE /api/videos/:id.
deleteVideoById(r) ==
  /\ runs[r].pc = "idle"
  /\ \A q \in RunIds : q < r => runs[q].pc # "idle"
  /\ Cardinality({q \in RunIds : runs[q].pc # "idle"}) < inFlight
  /\ \E param \in DeleteIds :
       LET id == parseInt(param)
           success == id.t = "number" /\ storageHasVideo(videos, id.n)
           answer == deleteResponse(id, success)
       IN /\ videos' = IF id.t = "number" THEN storageDeleteVideo(videos, id.n) ELSE videos
          /\ deletions' = IF success THEN deletions + 1 ELSE deletions
          /\ runs' = [runs EXCEPT ![r] =
               [@ EXCEPT !.pc = "Responded", !.route = "videos/:id", !.params = param,
                         !.outcome = IF id.t = "NaN" THEN "Invalid"
                                     ELSE IF success THEN "Deleted" ELSE "NotFound",
                         !.response = [NoResponse EXCEPT !.status = answer.status,
                                                         !.message = answer.message],
                         !.deletedVideos = IF success THEN {id.n} ELSE {}]]
  /\ UNCHANGED <<uploads, nextVideoId, inFlight, runsDone>>
  /\ UNCHANGED <<complianceVars, segmentVars, previewVars, heygenVars>>

\* Math.round(100 * part / whole) for counts part <= whole, whole > 0.
roundedPercentage(part, whole) == (200 * part + whole) \div (2 * whole)

\* +(total / count).toFixed(1), in tenths, for count > 0.
roundedTenths(total, count) == (20 * total + count) \div (2 * count)

\* videos.reduce((sum, video) => sum + video.duration, 0)
RECURSIVE sumDuration(_)
sumDuration(stored) ==
  IF stored = {} THEN 0
  ELSE LET v == CHOOSE w \in stored : TRUE
       IN v.duration + sumDuration(stored \ {v})

\* getComplianceStats() over the stored Videos; avg_duration is in tenths.
\* A count of 0 is replaced by the sample figure (totalVideos || 127,
\* passedVideos || 121), an empty store has rate 95 and duration 8.5.
getComplianceStats(stored) ==
  LET totalVideos == Cardinality(stored)
      passedVideos == Cardinality({ v \in stored : v.compliance_status = "Passed" })
  IN [compliance_rate |->
        IF totalVideos > 0 THEN roundedPercentage(passedVideos, totalVideos) ELSE 95,
      videos_generated |-> IF totalVideos # 0 THEN totalVideos ELSE 127,
      videos_passed |-> IF passedVideos # 0 THEN passedVideos ELSE 121,
      avg_duration |->
        IF totalVideos > 0 THEN roundedTenths(sumDuration(stored), totalVideos) ELSE 85]

\* videoController.getStats with videoService.getComplianceStats.
getStats(r) ==
  /\ runs[r].pc = "idle"
  /\ \A q \in RunIds : q < r => runs[q].pc # "idle"
  /\ Cardinality({q \in RunIds : runs[q].pc # "idle"}) < inFlight
  /\ runs' = [runs EXCEPT ![r] =
       [@ EXCEPT !.pc = "Responded", !.route = "videos/stats", !.outcome = "Stats",
                 !.response = [NoResponse EXCEPT !.status = 200],
                 !.stats = getComplianceStats(videos)]]
  /\ UNCHANGED <<uploads, videos, nextVideoId, inFlight, runsDone, deletions>>
  /\ UNCHANGED <<complianceVars, segmentVars, previewVars, heygenVars>>

\* videoController.uploadContent: POST /api/upload.
uploadContent ==
  /\ Len(uploads) + pendingUploads < MaxUploads
  /\ \E h \in {Undefined, Str(SampleHcpText)}, d \in {Undefined, Str(SampleDocumentPath)} :
       IF ~TruthyText(h)
         THEN UNCHANGED uploads
         ELSE uploads' = storageCreateUpload(uploads,
                [user_id |-> Anonymous, hcp_text |-> h.s,
                 document_path |-> IF TruthyText(d) THEN d ELSE Undefined])
  /\ UNCHANGED <<videos, nextVideoId, inFlight, runs, runsDone, deletions>>
  /\ UNCHANGED <<complianceVars, segmentVars, previewVars, heygenVars>>

\* ------------------------------------------------------- the specification
Init ==
  /\ uploads = <<>>
  /\ videos = {}
  /\ nextVideoId = 1
  /\ inFlight = 1
  /\ runs = [r \in RunIds |-> IdleRun]
  /\ runsDone = 0
  /\ deletions = 0
  /\ cPc = "idle"
  /\ cScript = Undefined
  /\ cLlm = [ok |-> FALSE, details |-> NoVerdict]
  /\ cResult = ComplianceThrew
  /\ sPc = "idle"
  /\ sHcpText = <<>>
  /\ sBase = NoBase
  /\ sResult = NoMeditag
  /\ previewVideo = NoVideo
  /\ complianceState = "null"
  /\ hPc = "idle"
  /\ hKey = FALSE
  /\ hAnswers = NoAnswers
  /\ hResult = NoVideoResult

Next ==
  \/ uploadContent
  \/ \E r \in RunIds : Request(r)
  \/ \E r \in RunIds : ResolveInput(r)
  \/ \E r \in RunIds : Segment(r)
  \/ \E r \in RunIds : Draft(r)
  \/ \E r \in RunIds : Evaluate(r)
  \/ \E r \in RunIds : Synthesize(r)
  \/ \E r \in RunIds : Persist(r)
  \/ \E r \in RunIds : Respond(r)
  \/ \E r \in RunIds : Retire(r)
  \/ \E r \in RunIds : deleteVideoById(r)
  \/ \E r \in RunIds : getStats(r)

Spec == Init /\ [][Next]_vars

\* ------------------------------ specification with runs that are scheduled
\* Every await of createVideo returns or throws: a run that can take its
\* next step takes it.
RunStep(r) ==
  \/ ResolveInput(r)
  \/ Segment(r)
  \/ Draft(r)
  \/ Evaluate(r)
  \/ Synthesize(r)
  \/ Persist(r)

Fairness == \A r \in RunIds : WF_vars(RunStep(r))

SpecLive == Init /\ [][Next]_vars /\ Fairness

\* ------------------- specification of repeated requests against one upload
\* POST /api/generate-video, each time with the same upload_id and prompt.
RequestRetry(r) ==
  RequestOf(r, MaxVideos + 2, MaxUploads, {JsNumber(1)}, {Str(SamplePrompt)}, {Undefined})

\* The state after one POST /api/upload with the sample profile.
InitRetry ==
  /\ uploads = storageCreateUpload(<<>>,
       [user_id |-> Anonymous, hcp_text |-> SampleHcpText, document_path |-> Undefined])
  /\ videos = {}
  /\ nextVideoId = 1
  /\ inFlight = 1
  /\ runs = [r \in RunIds |-> IdleRun]
  /\ runsDone = 0
  /\ deletions = 0
  /\ cPc = "idle"
  /\ cScript = Undefined
  /\ cLlm = [ok |-> FALSE, details |-> NoVerdict]
  /\ cResult = ComplianceThrew
  /\ sPc = "idle"
  /\ sHcpText = <<>>
  /\ sBase = NoBase
  /\ sResult = NoMeditag
  /\ previewVideo = NoVideo
  /\ complianceState = "null"
  /\ hPc = "idle"
  /\ hKey = FALSE
  /\ hAnswers = NoAnswers
  /\ hResult = NoVideoResult

NextRetry ==
  \/ \E r \in RunIds : RequestRetry(r)
  \/ \E r \in RunIds : ResolveInput(r)
  \/ \E r \in RunIds : Segment(r)
  \/ \E r \in RunIds : Draft(r)
  \/ \E r \in RunIds : Evaluate(r)
  \/ \E r \in RunIds : Synthesize(r)
  \/ \E r \in RunIds : Persist(r)
  \/ \E r \in RunIds : Respond(r)
  \/ \E r \in RunIds : Retire(r)
  \/ \E r \in RunIds : deleteVideoById(r)
  \/ \E r \in RunIds : getStats(r)

SpecRetry == InitRetry /\ [][NextRetry]_vars

\* ------------------------------------- specification of the segmenter alone
MaxYears == 16

\* The profile texts analyzeHCP is called with: up to four fields, each
\* followed by a comma.
SpecialtyParts ==
  {<<>>, KeySpecialty \o <<" ">> \o Oncology, KeySpecialty \o <<" ">> \o Cardiology,
   Oncologist, Neurologist}

RateLiterals ==
  {<<"0">>, <<"0", ".", "4">>, <<"0", ".", "4", "1">>, <<"0", ".", "7">>,
   <<"0", ".", "7", "1">>, <<"1">>, <<".">>}

RateParts == {<<>>} \cup { KeyPrescriptionRate \o <<" ">> \o l : l \in RateLiterals }

PracticeParts == {<<>>, KeyPracticeSize \o <<" ">> \o Large}

YearsParts == {<<>>} \cup { KeyYearsExperience \o <<" ">> \o ToDecimal(n) : n \in 0..MaxYears }

Field(part) == IF part = <<>> THEN <<>> ELSE part \o <<",", " ">>

ProfileTexts ==
  { Field(s) \o Field(r) \o Field(p) \o Field(y) :
      s \in SpecialtyParts, r \in RateParts, p \in PracticeParts, y \in YearsParts }

InitSegment ==
  /\ sPc = "called"
  /\ sHcpText \in ProfileTexts
  /\ sBase = NoBase
  /\ sResult = NoMeditag
  /\ previewVideo = NoVideo
  /\ complianceState = "null"
  /\ hPc = "idle"
  /\ hKey = FALSE
  /\ hAnswers = NoAnswers
  /\ hResult = NoVideoResult
  /\ cPc = "idle"
  /\ cScript = Undefined
  /\ cLlm = [ok |-> FALSE, details |-> NoVerdict]
  /\ cResult = ComplianceThrew
  /\ uploads = <<>>
  /\ videos = {}
  /\ nextVideoId = 1
  /\ inFlight = 1
  /\ runs = [r \in RunIds |-> IdleRun]
  /\ runsDone = 0
  /\ deletions = 0

\* analyzeHCP(hcpText) returns.
AnalyzeReturn ==
  /\ sPc = "called"
  /\ LET hcpData == parseHCPData(sHcpText)
     IN /\ sBase' = baseSegment(hcpData)
        /\ sResult' = segmentHCP(hcpData)
  /\ sPc' = "returned"
  /\ UNCHANGED sHcpText
  /\ UNCHANGED <<complianceVars, pipelineVars, previewVars, heygenVars>>

NextSegment == AnalyzeReturn

SpecSegment == InitSegment /\ [][NextSegment]_vars

\* -------------------------------- specification of the preview (VideoPreview)
\* The Video a run stores for the sample prompt against upload 1, with the
\* banned script, the placeholder video and the evaluator's result for llm.
StoredVideoOf(id, llm) ==
  LET complianceResult == evaluateCompliance(Str(BannedScript), llm)
  IN [id |-> id,
      upload_id |-> 1,
      title |-> getVideoTitle(SamplePrompt, CardiologistLabel),
      prompt |-> SamplePrompt,
      target_hcp |-> CardiologistLabel,
      video_url |-> PlaceholderVideoUrl,
      thumbnail_url |-> PlaceholderThumbnailUrl,
      duration |-> 8,
      compliance_status |-> complianceResult.status,
      meditag_segment |-> analyzeHCP(SampleHcpText).segment,
      generated_script |-> BannedScript,
      compliance_details |-> complianceResult.details]

PreviewVideos == { StoredVideoOf(id, llm) : id \in 1..(MaxVideos + 1), llm \in RunLlmOutcomes }

\* The state after MaxVideos + 1 runs against one upload and some deletions.
InitPreview ==
  /\ uploads = storageCreateUpload(<<>>,
       [user_id |-> Anonymous, hcp_text |-> SampleHcpText, document_path |-> Undefined])
  /\ videos \in { s \in SUBSET PreviewVideos : \A v, w \in s : v.id = w.id => v = w }
  /\ nextVideoId = MaxVideos + 2
  /\ inFlight = 1
  /\ runs = [r \in RunIds |-> IdleRun]
  /\ runsDone = MaxVideos + 1
  /\ deletions = MaxVideos + 1 - Cardinality(videos)
  /\ previewVideo = NoVideo
  /\ complianceState = "null"
  /\ hPc = "idle"
  /\ hKey = FALSE
  /\ hAnswers = NoAnswers
  /\ hResult = NoVideoResult
  /\ sPc = "idle"
  /\ sHcpText = <<>>
  /\ sBase = NoBase
  /\ sResult = NoMeditag
  /\ cPc = "idle"
  /\ cScript = Undefined
  /\ cLlm = [ok |-> FALSE, details |-> NoVerdict]
  /\ cResult = ComplianceThrew

\* VideoPreview is given another video prop (a stored Video, or null), and
\* the effect on [video?.id] sets complianceState from it.
showVideo ==
  /\ \E v \in videos \cup {NoVideo} :
       /\ v.id # previewVideo.id
       /\ previewVideo' = v
       /\ complianceState' = IF v = NoVideo THEN "null" ELSE v.compliance_status
  /\ UNCHANGED <<complianceVars, segmentVars, pipelineVars, heygenVars>>

\* handleApproveCompliance: the status is set in the component only; the
\* request that would store it is commented out.
handleApproveCompliance ==
  /\ previewVideo # NoVideo
  /\ complianceState' =
       IF previewVideo.compliance_status \in {"Review", "Failed"} THEN "Passed"
       ELSE complianceState
  /\ UNCHANGED previewVideo
  /\ UNCHANGED <<complianceVars, segmentVars, pipelineVars, heygenVars>>

NextPreview ==
  \/ showVideo
  \/ handleApproveCompliance
  \/ \E r \in RunIds : deleteVideoById(r)
  \/ \E r \in RunIds : getStats(r)
  \/ \E r \in RunIds : Retire(r)

SpecPreview == InitPreview /\ [][NextPreview]_vars

\* ------------------------------------ specification of runs in flight at once
\* Every handler invocation may be in flight at once: each await of one
\* createVideo lets the others go on.  Each request sends a prompt and either
\* the same raw HCP text or none, and there are as many runs that store a
\* Video as there are invocations.
ConcurrentRuns == Cardinality(RunIds)

InitConcurrent ==
  /\ uploads = <<>>
  /\ videos = {}
  /\ nextVideoId = 1
  /\ inFlight = ConcurrentRuns
  /\ runs = [r \in RunIds |-> IdleRun]
  /\ runsDone = 0
  /\ deletions = 0
  /\ cPc = "idle"
  /\ cScript = Undefined
  /\ cLlm = [ok |-> FALSE, details |-> NoVerdict]
  /\ cResult = ComplianceThrew
  /\ sPc = "idle"
  /\ sHcpText = <<>>
  /\ sBase = NoBase
  /\ sResult = NoMeditag
  /\ previewVideo = NoVideo
  /\ complianceState = "null"
  /\ hPc = "idle"
  /\ hKey = FALSE
  /\ hAnswers = NoAnswers
  /\ hResult = NoVideoResult

\* The runs that may still store a Video.
inPipeline ==
  Cardinality({ q \in RunIds :
                  runs[q].pc \notin {"idle", "Done", "Failed", "Responded"} })

RequestConcurrent(r) ==
  /\ nextVideoId + inPipeline <= ConcurrentRuns
  /\ RequestOf(r, ConcurrentRuns, ConcurrentRuns, {JsUndefined}, {Str(SamplePrompt)},
               {Undefined, Str(SampleHcpText)})

NextConcurrent ==
  \/ \E r \in RunIds : RequestConcurrent(r)
  \/ \E r \in RunIds : ResolveInput(r)
  \/ \E r \in RunIds : Segment(r)
  \/ \E r \in RunIds : Draft(r)
  \/ \E r \in RunIds : Evaluate(r)
  \/ \E r \in RunIds : Synthesize(r)
  \/ \E r \in RunIds : Persist(r)
  \/ \E r \in RunIds : Respond(r)
  \/ \E r \in RunIds : Retire(r)

SpecConcurrent == InitConcurrent /\ [][NextConcurrent]_vars

\* ----------------------------------- specification of the synthesizer alone
\* generateVideo is called in every environment and against every behaviour
\* of the provider.
InitHeygen ==
  /\ hPc = "called"
  /\ hKey \in BOOLEAN
  /\ hAnswers \in ProviderAnswers
  /\ hResult = NoVideoResult
  /\ previewVideo = NoVideo
  /\ complianceState = "null"
  /\ sPc = "idle"
  /\ sHcpText = <<>>
  /\ sBase = NoBase
  /\ sResult = NoMeditag
  /\ cPc = "idle"
  /\ cScript = Undefined
  /\ cLlm = [ok |-> FALSE, details |-> NoVerdict]
  /\ cResult = ComplianceThrew
  /\ uploads = <<>>
  /\ videos = {}
  /\ nextVideoId = 1
  /\ inFlight = 1
  /\ runs = [r \in RunIds |-> IdleRun]
  /\ runsDone = 0
  /\ deletions = 0

GenerateReturn ==
  /\ hPc = "called"
  /\ hResult' = generateVideo(hKey, hAnswers)
  /\ hPc' = "returned"
  /\ UNCHANGED <<hKey, hAnswers>>
  /\ UNCHANGED <<complianceVars, pipelineVars, segmentVars, previewVars>>

NextHeygen == GenerateReturn

SpecHeygen == InitHeygen /\ [][NextHeygen]_vars

\* ------------------------------------- specification of the evaluator alone
InitCompliance ==
  /\ cPc = "called"
  /\ cScript \in { Str(c) : c \in ScriptTexts } \cup {Undefined}
  /\ cLlm \in LlmOutcomes
  /\ cResult = ComplianceThrew
  /\ sPc = "idle"
  /\ sHcpText = <<>>
  /\ sBase = NoBase
  /\ sResult = NoMeditag
  /\ previewVideo = NoVideo
  /\ complianceState = "null"
  /\ hPc = "idle"
  /\ hKey = FALSE
  /\ hAnswers = NoAnswers
  /\ hResult = NoVideoResult
  /\ uploads = <<>>
  /\ videos = {}
  /\ nextVideoId = 1
  /\ inFlight = 1
  /\ runs = [r \in RunIds |-> IdleRun]
  /\ runsDone = 0
  /\ deletions = 0

EvaluateReturn ==
  /\ cPc = "called"
  /\ cResult' = evaluateCompliance(cScript, cLlm)
  /\ cPc' = IF cResult'.threw THEN "threw" ELSE "returned"
  /\ UNCHANGED <<cScript, cLlm>>
  /\ UNCHANGED <<pipelineVars, segmentVars, previewVars, heygenVars>>

NextCompliance == EvaluateReturn

SpecCompliance == InitCompliance /\ [][NextCompliance]_vars

\* ================================================================ claims
\* What the claims say of a script, written from the marker lists alone.
SaysOneOf(terms, chars) ==
  \E k \in 1..Len(terms) :
    \E i \in 0..(Len(chars) - Len(terms[k])) :
      \A j \in 1..Len(terms[k]) : LowerChar(chars[i + j]) = terms[k][j]

HasEvidenceMarker(script) == SaysOneOf(evidenceTerms, script.s)
HasBannedTerm(script) == SaysOneOf(nonCompliantTerms, script.s)

\* C1: when the video provider fails (key missing, both submissions failing,
\* or no URL from either status request), generateVideo still returns, with
\* the placeholder URL, and the step after it stores exactly one new Video
\* whose video_url is the placeholder.
C1_ProviderFailureYieldsPlaceholderVideo ==
  [][\A r \in RunIds :
       /\ (runs[r].pc = "Synthesizing" /\ runs'[r].pc # "Synthesizing")
            => /\ runs'[r].pc = "Persisting"
               /\ runs'[r].providerFailed
                    => runs'[r].videoResult.videoUrl = PlaceholderVideoUrl
       /\ (runs[r].pc = "Persisting" /\ runs[r].providerFailed /\ runs'[r].pc # "Persisting")
            => /\ runs'[r].pc = "Done"
               /\ \E v \in videos' :
                    /\ v \notin videos
                    /\ videos' = videos \cup {v}
                    /\ v.id = runs'[r].videoId
                    /\ v.video_url = PlaceholderVideoUrl]_vars

C1_Witness ==
  \E r \in RunIds :
    /\ runs[r].pc = "Done"
    /\ runs[r].providerFailed
    /\ runs[r].providerCalls > 0
    /\ \E v \in videos : v.id = runs[r].videoId /\ v.video_url = PlaceholderVideoUrl

\* C2 as stated: after a failed LLM call the status is neither Failed nor
\* Passed, and Passed always rests on an LLM verdict with passed = true.
C2_PassedOnlyOnLlmVerdict ==
  cPc = "returned" =>
    /\ ~cLlm.ok => cResult.status \notin {"Failed", "Passed"}
    /\ cResult.status = "Passed" => cLlm.ok /\ cLlm.details.passed

\* C2 as amended: after a failed LLM call the status is never Failed, and it
\* is Passed only for a script with an evidence marker and no banned term;
\* Passed rests on an LLM verdict with passed = true or, when the LLM call
\* failed, on that local heuristic.
C2_PassedOnVerdictOrHeuristic ==
  cPc = "returned" =>
    /\ ~cLlm.ok => cResult.status # "Failed"
    /\ cResult.status = "Passed" =>
         \/ cLlm.ok /\ cLlm.details.passed
         \/ ~cLlm.ok /\ HasEvidenceMarker(cScript) /\ ~HasBannedTerm(cScript)

C2_Witness ==
  /\ cPc = "returned"
  /\ ~cLlm.ok
  /\ cResult.status = "Passed"
  /\ HasEvidenceMarker(cScript)

\* C3: with an LLM verdict of passed = false, a script that has an evidence
\* marker gets Review (also when the score is below 60), never Passed, and
\* Failed is returned only for a script without an evidence marker.
C3_RescueToReview ==
  (cPc = "returned" /\ cLlm.ok /\ ~cLlm.details.passed) =>
    /\ HasEvidenceMarker(cScript) => cResult.status = "Review"
    /\ cResult.status # "Passed"
    /\ cResult.status = "Failed" => ~HasEvidenceMarker(cScript)

C3_Witness ==
  /\ cPc = "returned"
  /\ cLlm.ok /\ ~cLlm.details.passed /\ cLlm.details.score < 60
  /\ HasEvidenceMarker(cScript)
  /\ cResult.status = "Review"

\* C4: after a failed LLM call the result is Passed with score 80 and no
\* issues exactly when the script has an evidence marker and no banned term;
\* otherwise it is Review with score 50, one issue and one recommendation;
\* it is never Failed.
C4_FallbackHeuristic ==
  (cPc = "returned" /\ ~cLlm.ok) =>
    /\ cResult.status # "Failed"
    /\ IF HasEvidenceMarker(cScript) /\ ~HasBannedTerm(cScript)
         THEN /\ cResult.status = "Passed"
              /\ cResult.passed
              /\ cResult.details.score = 80
              /\ cResult.details.issues = <<>>
              /\ cResult.details.recommendations = <<>>
         ELSE /\ cResult.status = "Review"
              /\ ~cResult.passed
              /\ cResult.details.score = 50
              /\ Len(cResult.details.issues) = 1
              /\ Len(cResult.details.recommendations) = 1

C4_Witness ==
  /\ cPc = "returned"
  /\ ~cLlm.ok
  /\ HasEvidenceMarker(cScript) /\ HasBannedTerm(cScript)
  /\ cResult.status = "Review"

\* The request names no upload and its HCP text is absent or blank.
NoProfileGiven(body) ==
  /\ body.upload_id = JsUndefined
  /\ body.hcp_text.t = "string" => trim(body.hcp_text.s) = <<>>

\* C5: a run without upload identifier whose HCP text is absent, empty or
\* only whitespace creates, when it resolves its input, an Upload holding the
\* default profile, and the Video it stores references that Upload.
C5_BlankTextGetsDefaultUpload ==
  [][\A r \in RunIds :
       /\ (/\ runs[r].pc = "ResolvingInput"
           /\ NoProfileGiven(runs[r].body)
           /\ runs'[r].pc # "ResolvingInput")
            => \E id \in runs'[r].createdUploads :
                 /\ id \notin 1..Len(uploads)
                 /\ storageGetUpload(uploads', id).hcp_text = DefaultHcpText
                 /\ runs'[r].uploadIdToUse = JsNumber(id)
       /\ (/\ runs[r].pc = "Persisting"
           /\ runs[r].branch \in {"blank", "default"}
           /\ runs'[r].pc = "Done")
            => \E v \in videos' \ videos : v.upload_id \in runs'[r].createdUploads]_vars

\* The number an upload_id of the request body stands for.
IsNumeric(id) == id.t \in {"number", "numeral"}

\* The request names an upload that is not stored.
UnknownUpload(id) ==
  /\ id # JsUndefined
  /\ ~(IsNumeric(id) /\ storageHasUpload(uploads, id.n))

\* The run stopped with the not-found error and created nothing.
StoppedNotFound(run) ==
  /\ run.pc \in {"Failed", "Responded"}
  /\ run.failedAt = "ResolvingInput"
  /\ run.branch = "notFound"
  /\ run.createdUploads = {}
  /\ run.createdVideos = {}
  /\ run.llmCalls = 0
  /\ run.pc = "Responded" => run.response.status = 500

\* C6 as stated: whatever upload identifier the request carries, if no
\* Upload is stored under it when the run resolves its input, the run fails
\* with not-found and creates nothing.
C6_UnknownUploadFails ==
  [][\A r \in RunIds :
       (/\ runs[r].pc = "ResolvingInput"
        /\ UnknownUpload(runs[r].body.upload_id)
        /\ runs'[r].pc # "ResolvingInput")
         => /\ StoppedNotFound(runs'[r])
            /\ uploads' = uploads
            /\ videos' = videos]_vars

\* C6 as amended: an upload identifier that stands for a non-zero integer
\* under which no Upload is stored makes the run fail with not-found,
\* creating nothing, then and for as long as the run lasts; an identifier
\* that is 0, "0" or no number is treated as no identifier, and the run
\* resolves its input from the HCP text or the default profile.
C6_UnknownNonZeroUploadFails ==
  [][\A r \in RunIds :
       /\ (/\ runs[r].pc = "ResolvingInput"
           /\ UnknownUpload(runs[r].body.upload_id)
           /\ runs'[r].pc # "ResolvingInput")
            => IF IsNumeric(runs[r].body.upload_id) /\ runs[r].body.upload_id.n # 0
                 THEN /\ StoppedNotFound(runs'[r])
                      /\ runs'[r].error = notFoundMessage(runs[r].body.upload_id.n)
                      /\ uploads' = uploads
                      /\ videos' = videos
                 ELSE runs'[r].branch \in {"hcpText", "blank", "default"}
       /\ runs'[r].branch = "notFound" => StoppedNotFound(runs'[r])]_vars

C6_Witness ==
  \E r \in RunIds :
    /\ runs[r].pc = "Responded"
    /\ runs[r].outcome = "Failed"
    /\ runs[r].branch = "notFound"
    /\ IsNumeric(runs[r].body.upload_id) /\ runs[r].body.upload_id.n # 0
    /\ TruthyText(runs[r].body.hcp_text)
    /\ runs[r].response.status = 500

\* C7: a run fails only while resolving its input or drafting, and only with
\* the not-found or the script-generation error.
C7_FailsOnlyInResolvingOrDrafting ==
  \A r \in RunIds :
    runs[r].failedAt # "none" =>
      \/ runs[r].failedAt = "ResolvingInput" /\ runs[r].branch = "notFound"
      \/ runs[r].failedAt = "Drafting" /\ runs[r].error = MsgScriptError

\* The prompt of the request is missing or empty.
PromptMissing(body) == ~(body.prompt.t = "string" /\ body.prompt.s # <<>>)

\* C8: a request whose prompt is missing or empty is answered with 400
\* without a call of createVideo, whatever else the body holds: taking it
\* changes no stored Upload or Video, and the run makes no LLM and no
\* provider request, then or later.
C8_NoPromptNoSideEffect ==
  [][\A r \in RunIds :
       /\ (/\ runs[r].pc = "idle"
           /\ runs'[r].route = "generate-video"
           /\ PromptMissing(runs'[r].body))
            => /\ runs'[r].pc = "Responded"
               /\ runs'[r].response.status = 400
               /\ runs'[r].serviceCalls = 0
               /\ runs'[r].createdUploads = {}
               /\ runs'[r].createdVideos = {}
               /\ runs'[r].llmCalls = 0
               /\ runs'[r].providerCalls = 0
               /\ uploads' = uploads
               /\ videos' = videos
       /\ runs[r].outcome = "Rejected" => runs'[r] \in {runs[r], IdleRun}]_vars

C8_Witness ==
  \E r \in RunIds :
    /\ runs[r].pc = "Responded"
    /\ runs[r].route = "generate-video"
    /\ runs[r].response.status = 400
    /\ runs[r].body.prompt = Str(<<>>)
    /\ runs[r].body.upload_id # JsUndefined
    /\ TruthyText(runs[r].body.hcp_text)

\* C9 as stated: a run that fails with not-found or in script generation has
\* created no Upload and no Video.
C9_HardFailureCreatesNothing ==
  \A r \in RunIds :
    runs[r].failedAt \in {"ResolvingInput", "Drafting"} =>
      /\ runs[r].createdUploads = {}
      /\ runs[r].createdVideos = {}

\* C9 as amended: a run that fails with not-found or in script generation has
\* created no Video; the not-found run has created no Upload either, while a
\* run that fails in script generation after resolving raw HCP text or the
\* default profile has created one Upload, which stays stored.
C9_HardFailureCreatesNoVideo ==
  \A r \in RunIds :
    runs[r].failedAt \in {"ResolvingInput", "Drafting"} =>
      /\ runs[r].createdVideos = {}
      /\ runs[r].failedAt = "ResolvingInput" => runs[r].createdUploads = {}
      /\ runs[r].failedAt = "Drafting" =>
           IF runs[r].branch \in {"hcpText", "default"}
             THEN /\ Cardinality(runs[r].createdUploads) = 1
                  /\ \A id \in runs[r].createdUploads : storageHasUpload(uploads, id)
             ELSE runs[r].createdUploads = {}

C9_Witness ==
  \E r \in RunIds :
    /\ runs[r].pc = "Responded"
    /\ runs[r].failedAt = "Drafting"
    /\ runs[r].branch = "hcpText"
    /\ runs[r].createdUploads # {}
    /\ runs[r].response.status = 500

\* C10: when a run ends with the placeholder video because the provider
\* failed, the response carries the api_error marker and an explanation,
\* and a Video has been stored.
C10_DegradedRunIsMarked ==
  \A r \in RunIds :
    (runs[r].pc = "Responded" /\ runs[r].outcome = "Done" /\ runs[r].providerFailed) =>
      /\ runs[r].response.api_error
      /\ runs[r].response.message # MsgGenerated
      /\ runs[r].createdVideos # {}

\* C11: a run writes exactly one Video, in the step that takes it to Done,
\* and no other step of a run writes one; the number of stored Videos is
\* the number of runs that reached Done less the number of deletions that
\* removed a Video; and the Video of a run given an upload id carries that
\* upload_id under an id no other stored Video has.
C11_OneVideoPerDoneRun ==
  [][/\ \A r \in RunIds :
          IF runs[r].pc # "Done" /\ runs'[r].pc = "Done"
            THEN /\ \E v \in videos' \ videos :
                      /\ videos' = videos \cup {v}
                      /\ \A w \in videos : w.id # v.id
                      /\ runs'[r].createdVideos = {v.id}
                      /\ runs[r].uploadIdToUse.t = "number"
                           => v.upload_id = runs[r].uploadIdToUse.n
            ELSE /\ runs'[r].route = "generate-video" /\ runs'[r].pc # "idle"
                      => runs'[r].createdVideos = runs[r].createdVideos
                 /\ runs'[r].createdVideos # {} => runs'[r].outcome = "Done" \/ runs'[r].pc = "Done"
     /\ (\A r \in RunIds : ~(runs[r].pc # "Done" /\ runs'[r].pc = "Done"))
          => videos' \subseteq videos
     /\ Cardinality(videos') = runsDone' - deletions'
     /\ \A v, w \in videos' : v.id = w.id => v = w]_vars

C11_Witness ==
  /\ runsDone = 3
  /\ deletions = 1
  /\ \E v, w \in videos : v.id # w.id /\ v.upload_id = 1 /\ w.upload_id = 1
  /\ \E r \in RunIds : runs[r].pc = "Responded" /\ runs[r].outcome = "Deleted"

\* The request names no upload and carries HCP text that is not blank.
RawProfileGiven(body) ==
  /\ body.upload_id = JsUndefined
  /\ body.hcp_text.t = "string"
  /\ trim(body.hcp_text.s) # <<>>

\* C12: a run without upload identifier whose HCP text is non-empty after
\* trimming stores, when it resolves its input and before the Segmenter and
\* the Script Drafter are called, exactly one new Upload holding the supplied
\* text; it stores no further Upload, and the Video it persists references
\* that Upload.
C12_RawTextGetsOneUpload ==
  [][\A r \in RunIds :
       /\ (/\ runs[r].pc = "ResolvingInput"
           /\ RawProfileGiven(runs[r].body)
           /\ runs'[r].pc # "ResolvingInput")
            => /\ Len(uploads') = Len(uploads) + 1
               /\ SubSeq(uploads', 1, Len(uploads)) = uploads
               /\ storageGetUpload(uploads', Len(uploads')).hcp_text = runs[r].body.hcp_text.s
               /\ runs'[r].pc = "Segmenting"
               /\ runs'[r].branch = "hcpText"
               /\ runs'[r].createdUploads = {Len(uploads')}
               /\ runs'[r].uploadIdToUse = JsNumber(Len(uploads'))
               /\ runs'[r].meditagResult = NoMeditag
               /\ runs'[r].scriptResult = NoScript
               /\ runs'[r].llmCalls = 0
       /\ (/\ runs[r].branch = "hcpText"
           /\ runs[r].pc \in {"Segmenting", "Drafting", "Evaluating", "Synthesizing",
                              "Persisting"})
            => /\ runs'[r].createdUploads = runs[r].createdUploads
               /\ \A id \in runs[r].createdUploads :
                    storageGetUpload(uploads', id) = storageGetUpload(uploads, id)
       /\ (/\ runs[r].pc = "Persisting"
           /\ runs[r].branch = "hcpText"
           /\ runs'[r].pc = "Done")
            => \E v \in videos' \ videos :
                 /\ runs[r].createdUploads = {v.upload_id}
                 /\ storageHasUpload(uploads', v.upload_id)]_vars

C12_Witness ==
  \E r \in RunIds :
    /\ runs[r].pc = "Done"
    /\ runs[r].branch = "hcpText"
    /\ runs[r].createdUploads = {1}
    /\ storageGetUpload(uploads, 1).hcp_text = SampleHcpText
    /\ \E v \in videos : v.id = runs[r].videoId /\ v.upload_id = 1

\* C13: every draft that is not well formed stops the run in Drafting with
\* the script-generation error: a run that has left Drafting without failing
\* holds a script, and a run that failed in Drafting carries the generic
\* error, has made the drafting request only and has stored no Video.
C13_MalformedDraftAbortsInDrafting ==
  \A r \in RunIds :
    /\ runs[r].pc \in {"Evaluating", "Synthesizing", "Persisting"}
         => runs[r].scriptResult.script.t = "string"
    /\ runs[r].failedAt = "Evaluating" => runs[r].error = MsgScriptError
    /\ runs[r].failedAt = "Drafting"
         => /\ runs[r].error = MsgScriptError
            /\ runs[r].llmCalls = 1
            /\ runs[r].providerCalls = 0
            /\ runs[r].createdVideos = {}

\* C14: with an LLM verdict and a script without evidence marker, the status
\* is Passed exactly when the verdict passed, otherwise Review exactly when
\* the score is at least 60, otherwise Failed; 60 gives Review, 59 Failed.
C14_PrimaryStatusDerivation ==
  (cPc = "returned" /\ cLlm.ok /\ ~HasEvidenceMarker(cScript)) =>
    /\ cResult.path = "primary"
    /\ cResult.status = "Passed" <=> cLlm.details.passed
    /\ cResult.status = "Review" <=> (~cLlm.details.passed /\ cLlm.details.score >= 60)
    /\ cResult.status = "Failed" <=> (~cLlm.details.passed /\ cLlm.details.score < 60)
    /\ (~cLlm.details.passed /\ cLlm.details.score = 60) => cResult.status = "Review"
    /\ (~cLlm.details.passed /\ cLlm.details.score = 59) => cResult.status = "Failed"

C14_Witness ==
  /\ cPc = "returned"
  /\ cLlm.ok /\ ~cLlm.details.passed /\ cLlm.details.score = 60
  /\ ~HasEvidenceMarker(cScript)
  /\ cResult.status = "Review"

Segments == {"Early Adopter", "Evidence Driven", "Mainstream", "Conservative", "General"}

\* The base result of the segmenter: a segment with an exact confidence.
Based(segment, hundredths) == [segment |-> segment, confidence |-> Confidence(hundredths)]

\* C15: for a profile whose prescription rate is a number, before the
\* specialty adjustment: a rate above 0.7 gives Early Adopter with 0.85
\* whatever the years of experience; a rate above 0.4 and at most 0.7 gives
\* Evidence Driven with 0.9 when the years of experience exceed 10 and
\* Mainstream with 0.75 otherwise, years absent included; a rate of at most
\* 0.4 gives Conservative with 0.8.
C15_RateBands ==
  LET rate == sResult.characteristics.prescription_rate
      years == sResult.characteristics.years_experience
  IN (sPc = "returned" /\ rate.t = "number") =>
       /\ 10 * rate.num > 7 * rate.den => sBase = Based("Early Adopter", 85)
       /\ (10 * rate.num > 4 * rate.den /\ 10 * rate.num <= 7 * rate.den) =>
            IF years.t = "number" /\ years.num > 10 * years.den
              THEN sBase = Based("Evidence Driven", 90)
              ELSE sBase = Based("Mainstream", 75)
       /\ 10 * rate.num <= 4 * rate.den => sBase = Based("Conservative", 80)

C15_Witness ==
  /\ sPc = "returned"
  /\ sResult.characteristics.prescription_rate = Fraction(7, 10)
  /\ sResult.characteristics.years_experience = Fraction(11, 1)
  /\ sBase = Based("Evidence Driven", 90)

\* C16: analyzeHCP returns a segment for every profile; without a
\* prescription rate, more than 15 years of experience give Evidence Driven
\* with 0.7, fewer than 5 Early Adopter with 0.6, and 5 to 15 years or none
\* General with 0.7, before the adjustment; with a prescription rate the
\* result is one of the rate rule.
C16_SegmenterTotal ==
  LET rate == sResult.characteristics.prescription_rate
      years == sResult.characteristics.years_experience
  IN /\ sPc \in {"called", "returned"}
     /\ sPc = "returned" =>
          /\ sResult.segment \in Segments
          /\ sResult.segment = sBase.segment
          /\ rate.t = "undefined" =>
               IF years.t = "number" /\ years.num > 15 * years.den
                 THEN sBase = Based("Evidence Driven", 70)
               ELSE IF years.t = "number" /\ years.num < 5 * years.den
                 THEN sBase = Based("Early Adopter", 60)
               ELSE sBase = Based("General", 70)
          /\ rate.t # "undefined" =>
               sBase \in {Based("Early Adopter", 85), Based("Evidence Driven", 90),
                          Based("Mainstream", 75), Based("Conservative", 80)}

C16_Witness ==
  /\ sPc = "returned"
  /\ sResult.characteristics.prescription_rate = NoNumber
  /\ sResult.characteristics.years_experience = Fraction(15, 1)
  /\ sResult.characteristics.specialty = Undefined
  /\ sResult.segment = "General"
  /\ sResult.confidence = Confidence(70)

\* C17: the confidence analyzeHCP returns, after the specialty adjustment,
\* lies between 0 and 1, and the segment is one of the five segments.
C17_ConfidenceInRange ==
  sPc = "returned" =>
    /\ sResult.segment \in Segments
    /\ sResult.confidence.hundredths \in 0..100
    /\ sResult.confidence.hundredths = 100 => sResult.confidence.excess <= 0
    /\ sResult.confidence.hundredths = 0 => sResult.confidence.excess >= 0

C17_Witness ==
  /\ sPc = "returned"
  /\ sResult.characteristics.specialty = Str(Oncology)
  /\ sResult.segment = "Evidence Driven"
  /\ sResult.confidence = [hundredths |-> 95, excess |-> 1]

\* C18: no step removes a stored Upload or changes its hcp_text or
\* document_path, whether it belongs to a run that succeeds or fails, to a
\* deletion or to another request; so every run that resolves an existing
\* upload identifier works on the text and document path the Upload was
\* created with.
C18_UploadsImmutable ==
  [][/\ Len(uploads') >= Len(uploads)
     /\ \A id \in 1..Len(uploads) :
          /\ storageHasUpload(uploads', id)
          /\ storageGetUpload(uploads', id) = storageGetUpload(uploads, id)
     /\ \A r \in RunIds :
          (/\ runs[r].pc = "ResolvingInput"
           /\ runs'[r].pc # "ResolvingInput"
           /\ IsNumeric(runs[r].body.upload_id)
           /\ storageHasUpload(uploads, runs[r].body.upload_id.n))
            => /\ runs'[r].branch = "upload"
               /\ runs'[r].finalHcpText
                    = storageGetUpload(uploads', runs[r].body.upload_id.n).hcp_text
               /\ runs'[r].documentPath
                    = storageGetUpload(uploads', runs[r].body.upload_id.n).document_path
               /\ runs[r].body.upload_id.n = 1 => runs'[r].finalHcpText = SampleHcpText
               /\ uploads' = uploads]_vars

C18_Witness ==
  /\ runsDone = 1
  /\ deletions = 1
  /\ \E r \in RunIds :
       /\ runs[r].pc = "Segmenting"
       /\ runs[r].branch = "upload"
       /\ runs[r].finalHcpText = SampleHcpText
  /\ storageGetUpload(uploads, 1).hcp_text = SampleHcpText

\* The step is an approval, in the preview, of a Video in Review or Failed.
ApprovalStep ==
  /\ previewVideo # NoVideo
  /\ previewVideo' = previewVideo
  /\ previewVideo.compliance_status \in {"Review", "Failed"}
  /\ complianceState # "Passed"
  /\ complianceState' = "Passed"

\* C19: a stored Video changes only by an approval, which takes its stored
\* compliance status from Review or Failed to Passed, or by deletion; an
\* approval of a Video that is Passed changes nothing, and no step takes a
\* stored status away from Passed.
C19_ApprovalStoresPassed ==
  [][/\ ApprovalStep =>
          \A v \in videos :
            v.id = previewVideo.id =>
              [v EXCEPT !.compliance_status = "Passed"] \in videos'
     /\ \A v \in videos :
          \/ v \in videos'
          \/ \A w \in videos' : w.id # v.id
          \/ /\ ApprovalStep
             /\ v.id = previewVideo.id
             /\ [v EXCEPT !.compliance_status = "Passed"] \in videos'
     /\ \A v \in videos, w \in videos' :
          (v.id = w.id /\ v.compliance_status = "Passed") => w.compliance_status = "Passed"]_vars

\* C20: a delete request whose id matches no stored Video is answered with
\* 404 after the service returned false, without an error reaching the
\* caller, and leaves the stored Videos and Uploads as they were; a delete
\* request whose id is stored removes that Video, no other, and no Upload.
C20_DeleteUnknownIsNotFound ==
  [][\A r \in RunIds :
       (runs[r].pc = "idle" /\ runs'[r].route = "videos/:id" /\ IsNumeric(runs'[r].params))
         => LET id == runs'[r].params.n
            IN /\ runs'[r].pc = "Responded"
               /\ runs'[r].response.status # 500
               /\ uploads' = uploads
               /\ IF \E v \in videos : v.id = id
                    THEN /\ runs'[r].response.status = 200
                         /\ runs'[r].outcome = "Deleted"
                         /\ videos' = { v \in videos : v.id # id }
                         /\ Cardinality(videos') = Cardinality(videos) - 1
                    ELSE /\ runs'[r].response.status = 404
                         /\ runs'[r].response.message = MsgVideoNotFound
                         /\ runs'[r].outcome = "NotFound"
                         /\ videos' = videos]_vars

C20_Witness ==
  /\ \E r \in RunIds :
       /\ runs[r].pc = "Responded"
       /\ runs[r].route = "videos/:id"
       /\ runs[r].outcome = "NotFound"
       /\ runs[r].response.status = 404
       /\ \E v \in videos : v.id # runs[r].params.n
  /\ Cardinality(videos) = 2
  /\ Len(uploads) = 1

\* C21: the statistics report, for every set of stored Videos, the empty set
\* and sets without a Passed Video included, the number of stored Videos as
\* videos_generated, the number of Passed ones as videos_passed and the
\* rounded percentage of Passed over all as compliance_rate; so videos_passed
\* never exceeds videos_generated.
C21_StatsCountStoredVideos ==
  [][\A r \in RunIds :
       (runs[r].pc = "idle" /\ runs'[r].route = "videos/stats")
         => LET total == Cardinality(videos)
                passed == Cardinality({ v \in videos : v.compliance_status = "Passed" })
                stats == runs'[r].stats
            IN /\ stats.videos_generated = total
               /\ stats.videos_passed = passed
               /\ total > 0 =>
                    /\ 2 * total * stats.compliance_rate <= 200 * passed + total
                    /\ 200 * passed + total < 2 * total * (stats.compliance_rate + 1)
               /\ stats.videos_passed <= stats.videos_generated]_vars

\* The most provider requests one call of generateVideo makes: two
\* submissions and two status requests.

\* C22: if every external call returns or fails, a run that has started
\* ends in Done or Failed, and it makes at most four provider requests.
C22_RunsEnd ==
  /\ [](\A r \in RunIds : runs[r].providerCalls <= 4)
  /\ \A r \in RunIds :
       (runs[r].pc = "ResolvingInput") ~> (runs[r].pc \in {"Done", "Failed"})

C22_Witness ==
  \E r \in RunIds :
    /\ runs[r].pc = "Done"
    /\ runs[r].providerCalls = 4
    /\ runs[r].providerFailed

\* The stages of a run, in the order of createVideo.
StageOrder ==
  <<"ResolvingInput", "Segmenting", "Drafting", "Evaluating", "Synthesizing",
    "Persisting", "Done">>

StageRank(pc) == CHOOSE k \in 1..Len(StageOrder) : StageOrder[k] = pc

InStage(pc) == \E k \in 1..Len(StageOrder) : StageOrder[k] = pc

\* C23: a run goes through input resolution, Segmenter, Script Drafter,
\* Compliance Evaluator, Video Synthesizer and createVideo in this order, one
\* stage at a time and never back, so each is invoked at most once and only
\* after the one before has returned; the draft is not changed after the
\* Drafter returned it, and the script the evaluator was given, the script the
\* synthesizer was given and the stored generated_script are that draft.
C23_StagesInOrder ==
  [][\A r \in RunIds :
       LET run == runs[r]
           next == runs'[r]
       IN /\ (InStage(run.pc) /\ next.pc # run.pc) =>
               \/ run.pc # "Done" /\ next.pc = StageOrder[StageRank(run.pc) + 1]
               \/ run.pc # "Done" /\ next.pc = "Failed"
               \/ run.pc = "Done" /\ next.pc = "Responded"
          /\ next.pc = "ResolvingInput" => run.pc \in {"idle", "ResolvingInput"}
          /\ (run.pc \in {"Evaluating", "Synthesizing"} /\ InStage(next.pc)) =>
               next.scriptResult = run.scriptResult
          /\ (run.pc = "Evaluating" /\ next.pc # "Evaluating") =>
               next.evaluated = run.scriptResult.script
          /\ (run.pc = "Synthesizing" /\ next.pc = "Persisting") =>
               /\ next.synthesized = run.scriptResult.script
               /\ next.evaluated = run.evaluated
          /\ (run.pc = "Persisting" /\ next.pc = "Done") =>
               /\ next.video.generated_script = run.scriptResult.script.s
               /\ run.evaluated = run.scriptResult.script
               /\ run.synthesized = run.scriptResult.script
               /\ run.scriptResult.script.t = "string"]_vars

C23_Witness ==
  \E r \in RunIds :
    /\ runs[r].pc = "Done"
    /\ runs[r].video.generated_script = BannedScript
    /\ runs[r].evaluated = Str(BannedScript)
    /\ runs[r].synthesized = Str(BannedScript)
    /\ runs[r].llmCalls = 2

\* The requests of a synthesizer call, and whether a submission gave a job id.
Attempted(request) ==
  \E i \in 1..Len(hResult.calls) : hResult.calls[i] = request

Submitted ==
  hKey /\ (hAnswers.v2 = "id" \/ hAnswers.v1 = "id")

JobId == IF hAnswers.v2 = "id" THEN "v2-video-id" ELSE "v1-task-id"

\* C24: the v2 submission is made when the key is configured, and the v1
\* submission exactly when the v2 submission was made and failed or gave no
\* video id, and after it; when both
\* submissions fail the result is the placeholder URL with the simulated
\* video id and no status is asked; after a submission that gave an id,
\* video_status is asked first and task_status exactly when video_status gave
\* no URL, and when neither gives one the result is the placeholder URL with
\* the provider's job id.
C24_SubmissionAndStatusOrder ==
  hPc = "returned" =>
    /\ Attempted("v2") <=> hKey
    /\ Attempted("v2") => hResult.calls[1] = "v2"
    /\ Attempted("v1") <=> (Attempted("v2") /\ hAnswers.v2 # "id")
    /\ Attempted("v1") => hResult.calls[2] = "v1"
    /\ ~Submitted =>
         /\ hResult.videoUrl = PlaceholderVideoUrl
         /\ hResult.videoId = "simulated-video-id"
         /\ ~Attempted("video_status") /\ ~Attempted("task_status")
    /\ Submitted =>
         LET submissions == IF hAnswers.v2 = "id" THEN 1 ELSE 2
         IN /\ hResult.calls[submissions + 1] = "video_status"
            /\ Attempted("task_status") <=> hAnswers.video_status # "url"
            /\ Attempted("task_status") =>
                 /\ Len(hResult.calls) = submissions + 2
                 /\ hResult.calls[submissions + 2] = "task_status"
            /\ ~Attempted("task_status") => Len(hResult.calls) = submissions + 1
            /\ hResult.videoId = JobId
            /\ (hAnswers.video_status # "url" /\ hAnswers.task_status # "url") =>
                 hResult.videoUrl = PlaceholderVideoUrl
            /\ (hAnswers.video_status = "url" \/ hAnswers.task_status = "url") =>
                 hResult.videoUrl = ProviderVideoUrl

\* A v1 submission that gave a task id after v2 gave none, and neither status
\* request gave a URL.
C24_Witness ==
  /\ hPc = "returned"
  /\ hKey
  /\ hAnswers.v2 = "noid"
  /\ hAnswers.v1 = "id"
  /\ hAnswers.video_status = "nourl"
  /\ hAnswers.task_status = "error"
  /\ hResult.calls = <<"v2", "v1", "video_status", "task_status">>
  /\ hResult.videoUrl = PlaceholderVideoUrl
  /\ hResult.videoId = "v1-task-id"

\* C25: the specialty adjustment leaves the segment of the primary or
\* fallback rule as it is; for specialty Oncology it adds 0.05 to the
\* confidence of an Evidence Driven profile and subtracts 0.1 from any other,
\* for specialty Cardiology it subtracts 0.1 when the practice size is large
\* and the segment is not Mainstream, and in every other case the confidence
\* is the one the rule gave.  The sums are those of double arithmetic, at most
\* 1e-16 above the decimal value.
C25_AdjustmentKeepsSegment ==
  sPc = "returned" =>
    LET hcpData == sResult.characteristics
        before == sBase.confidence
        after == sResult.confidence
    IN /\ sResult.segment = sBase.segment
       /\ after.excess \in {0, 1}
       /\ IF hcpData.specialty = Str(Oncology)
            THEN IF sBase.segment = "Evidence Driven"
                   THEN after.hundredths = before.hundredths + 5
                   ELSE after.hundredths = before.hundredths - 10
          ELSE IF /\ hcpData.specialty = Str(Cardiology)
                  /\ hcpData.practice_size = Str(Large)
                  /\ sBase.segment # "Mainstream"
            THEN after.hundredths = before.hundredths - 10
          ELSE after = before

\* A large cardiology practice in the Mainstream segment keeps its confidence.
C25_Witness ==
  /\ sPc = "returned"
  /\ sResult.characteristics.specialty = Str(Cardiology)
  /\ sResult.characteristics.practice_size = Str(Large)
  /\ sBase = [segment |-> "Mainstream", confidence |-> Confidence(75)]
  /\ sResult.segment = "Mainstream"
  /\ sResult.confidence = Confidence(75)

\* C26: every stored Video's upload_id is the id of a stored Upload.
C26_VideosReferenceUploads ==
  \A v \in videos : storageHasUpload(uploads, v.upload_id)

\* The Video a step stores.
StoredBy(r) == CHOOSE v \in videos' : v.id = runs'[r].videoId

\* C27: with the runs interleaved at every await, the Video a run stores
\* carries the Upload this run created, the segment of that Upload's HCP
\* text, and the compliance status, script, duration and video URL this run
\* was given; it leaves the Videos of the other runs as they are; a run that
\* resolves raw HCP text, or none, stores an Upload no other run has; and
\* there are as many Videos as runs that reached Done, each with its own id.
C27_RunsDoNotMix ==
  [][/\ \A r \in RunIds :
          /\ (runs[r].pc = "ResolvingInput" /\ runs'[r].pc = "Segmenting") =>
               \E id \in 1..Len(uploads') :
                 /\ id \notin 1..Len(uploads)
                 /\ runs'[r].createdUploads = {id}
                 /\ runs'[r].uploadIdToUse = JsNumber(id)
                 /\ runs'[r].finalHcpText = storageGetUpload(uploads', id).hcp_text
                 /\ \A q \in RunIds \ {r} : id \notin runs'[q].createdUploads
                 /\ \A k \in 1..Len(uploads) : uploads'[k] = uploads[k]
          /\ (runs[r].pc = "Persisting" /\ runs'[r].pc = "Done") =>
               LET run == runs[r]
                   v == StoredBy(r)
               IN /\ videos' = videos \cup {v}
                  /\ \A w \in videos : w.id # v.id
                  /\ run.createdUploads = {v.upload_id}
                  /\ v.meditag_segment =
                       MeditagResults[storageGetUpload(uploads, v.upload_id).hcp_text].segment
                  /\ v.compliance_status = run.complianceResult.status
                  /\ v.compliance_details = run.complianceResult.details
                  /\ v.generated_script = run.scriptResult.script.s
                  /\ v.duration = run.scriptResult.duration
                  /\ v.target_hcp = run.scriptResult.targetAudience
                  /\ v.video_url = run.videoResult.videoUrl
                  /\ v.thumbnail_url = run.videoResult.thumbnailUrl
     /\ Cardinality(videos') = runsDone']_vars

\* Two runs that sent the same raw HCP text are Done at once: two Uploads of
\* that text, two Videos, each with its run's Upload, status and URL.
C27_Witness ==
  /\ runs[1].pc = "Done"
  /\ runs[2].pc = "Done"
  /\ runs[1].branch = "hcpText"
  /\ runs[2].branch = "hcpText"
  /\ Len(uploads) = 2
  /\ uploads[1].hcp_text = uploads[2].hcp_text
  /\ Cardinality(videos) = 2
  /\ runs[1].video.upload_id = 2
  /\ runs[2].video.upload_id = 1
  /\ runs[1].video.compliance_status # runs[2].video.compliance_status
  /\ runs[1].video.video_url # runs[2].video.video_url
  /\ runs[1].video.id = 2

\* C28: whatever status the evaluator returns, the run goes on to the Video
\* Synthesizer and then stores one Video with that status and a video URL;
\* after the evaluator has returned, no stage fails, so the status gates
\* nothing, and every stored Video has one of the three statuses and a
\* video URL.
C28_StatusGatesNothing ==
  [][/\ \A r \in RunIds :
          LET run == runs[r]
              next == runs'[r]
          IN /\ (run.pc = "Evaluating" /\ next.pc \notin {"Evaluating", "Failed"}) =>
                  /\ next.pc = "Synthesizing"
                  /\ next.complianceResult.status \in {"Passed", "Review", "Failed"}
             /\ (run.pc = "Synthesizing" /\ next.pc # "Synthesizing") =>
                  /\ next.pc = "Persisting"
                  /\ next.complianceResult = run.complianceResult
                  /\ next.videoResult.videoUrl # <<>>
             /\ (run.pc = "Persisting" /\ next.pc # "Persisting") =>
                  /\ next.pc = "Done"
                  /\ \E v \in videos' :
                       /\ videos' = videos \cup {v}
                       /\ v \notin videos
                       /\ v.id = next.videoId
                       /\ v.compliance_status = run.complianceResult.status
                       /\ v.video_url = run.videoResult.videoUrl
     /\ \A v \in videos' :
          /\ v.compliance_status \in {"Passed", "Review", "Failed"}
          /\ v.video_url # <<>>]_vars

\* Three stored Videos, one of each status, each with a video URL.
C28_Witness ==
  \E passed \in videos, review \in videos, failed \in videos :
    /\ passed.compliance_status = "Passed"
    /\ review.compliance_status = "Review"
    /\ failed.compliance_status = "Failed"
    /\ passed.video_url # <<>> /\ review.video_url # <<>>
    /\ failed.video_url = ProviderVideoUrl

\* The request names a stored Upload and carries HCP text as well.
BothGiven(run) ==
  /\ TruthyUploadId(run.uploadId)
  /\ storageHasUpload(uploads, run.uploadId.n)
  /\ TruthyText(run.hcpText)

\* C29: a run that is given the id of a stored Upload and raw HCP text
\* resolves its input from the Upload: it goes on with the Upload's hcp_text
\* and document_path and with that id, stores no Upload and changes none,
\* and the segment and the Video's upload_id are those of the stored Upload.
C29_UploadIdTakesPrecedence ==
  [][\A r \in RunIds :
       LET run == runs[r]
           next == runs'[r]
       IN /\ (run.pc = "ResolvingInput" /\ BothGiven(run) /\ next.pc # "ResolvingInput") =>
               LET upload == storageGetUpload(uploads, run.uploadId.n)
               IN /\ next.pc = "Segmenting"
                  /\ next.branch = "upload"
                  /\ next.textPassedOver
                  /\ next.finalHcpText = upload.hcp_text
                  /\ next.documentPath = upload.document_path
                  /\ next.uploadIdToUse = run.uploadId
                  /\ next.createdUploads = {}
                  /\ uploads' = uploads
          /\ (run.textPassedOver /\ run.pc = "Segmenting" /\ next.pc # "Segmenting") =>
               next.meditagResult = MeditagResults[uploads[run.uploadIdToUse.n].hcp_text]
          /\ (run.textPassedOver /\ run.pc \notin {"idle", "Responded"}) =>
               /\ next.createdUploads = {}
               /\ Len(uploads') >= Len(uploads)
               /\ \A k \in 1..Len(uploads) : uploads'[k] = uploads[k]
          /\ (run.textPassedOver /\ run.pc = "Persisting" /\ next.pc = "Done") =>
               /\ next.video.upload_id = run.uploadIdToUse.n
               /\ storageHasUpload(uploads, next.video.upload_id)]_vars

\* A run given upload id 1 and HCP text is Done; Upload 1 holds the default
\* profile, which no request sends as text, and the Video has its segment.
C29_Witness ==
  \E r \in RunIds :
    /\ runs[r].pc = "Done"
    /\ runs[r].textPassedOver
    /\ runs[r].createdUploads = {}
    /\ Len(uploads) = 1
    /\ uploads[1].hcp_text = DefaultHcpText
    /\ runs[r].video.upload_id = 1
    /\ runs[r].video.meditag_segment = MeditagResults[DefaultHcpText].segment
    /\ runs[r].video.meditag_segment # MeditagResults[SampleHcpText].segment

\* C30: in every result evaluateCompliance returns, after an LLM verdict as
\* after the local fallback, passed is true exactly when status is Passed,
\* and passed is the passed of the details.
C30_PassedAgreesWithStatus ==
  cPc = "returned" =>
    /\ cResult.passed <=> cResult.status = "Passed"
    /\ cResult.passed = cResult.details.passed
    /\ cResult.path \in {"primary", "fallback"}

\* The rescue rule has acted: the LLM failed a script with an evidence marker
\* with fewer than 60 points, the status is Review and passed is false twice.
C30_Witness ==
  /\ cPc = "returned"
  /\ cResult.path = "primary"
  /\ cLlm.ok
  /\ ~cLlm.details.passed
  /\ cLlm.details.score < 60
  /\ containsEvidenceBasedLanguage(cScript.s)
  /\ cResult.status = "Review"
  /\ ~cResult.passed
  /\ ~cResult.details.passed

====
